---- MODULE Spec2Model ----
(***************************************************************************)
(* State-machine model of cacheman-s3's S3Store (src/src/index.ts): the    *)
(* cache operations get/set/del/clear/scan/healthCheck over an object      *)
(* store, with the key codec, the TTL metadata and the JSON body encoding  *)
(* computed character by character.                                        *)
(*                                                                         *)
(* Text (keys, bodies, metadata values) is a sequence of one-character     *)
(* strings.  Every asynchronous storage request has three moments: it is   *)
(* sent (pc = "req"), the store executes it (pc = "resp"), and the         *)
(* promise handler (.then/.catch) runs on the client.                      *)
(***************************************************************************)
EXTENDS Integers, Sequences, FiniteSets, TLC

VARIABLES
    store,   \* the bucket: storage key -> stored object (or NoObj)
    now,     \* Date.now(), in milliseconds
    ops,     \* every operation started so far, in call order
    config   \* this.config: the processed options of the S3Store instance

vars == <<store, now, ops, config>>

----------------------------------------------------------------------------
\* Bounds of the model

\* user-issued calls in the core specification (get/set/del/healthCheck)
MaxCalls == 3
\* requests the store may fail in one behaviour
MaxFailures == 1
\* the clock takes the values s*1000 + e, s in 0..MaxSec, e in 0..MaxMs
MaxSec == 1
MaxMs == 1

\* user-issued calls in the clear specification
MaxClearCalls == 2
\* entries in the bucket when the clear specification starts
MaxEntries == 5
\* keys the store returns in one page of a listing
PageSize == 3
\* user-issued calls in the fair specification
MaxLiveCalls == 2
\* user-issued calls in the argument specification
MaxArgCalls == 2
\* user-issued calls in the sequential specification
MaxSeqCalls == 4
\* user-issued calls in the scan specification
MaxScanCalls == 1
\* entries in the bucket when the scan specification starts
MaxScanEntries == 3
\* user-issued calls in the write-then-scan specification
MaxWriteCalls == 4
\* user-issued calls in the configuration specification
MaxConfigCalls == 2
\* user-issued calls in the race specification
MaxRaceCalls == 3
\* user-issued calls in the corrupt-body specification
MaxCorruptCalls == 2
\* user-issued calls in the specification of raising callbacks
MaxThrowCalls == 2
\* user-issued calls in the specification of all operations
MaxApiCalls == 2
\* user-issued calls in the key specification
MaxKeyCalls == 3
\* the listing specification: a page may come without its token while fewer
\* keys than this have been collected
MaxCollected == 3

----------------------------------------------------------------------------
\* Text helpers

StartsWith(s, p) == Len(s) >= Len(p) /\ SubSeq(s, 1, Len(p)) = p

Drop(s, n) == SubSeq(s, n + 1, Len(s))

\* String.prototype.replace with a global pattern: left to right, no overlap
RECURSIVE ReplaceAll(_, _, _)
ReplaceAll(s, pat, rep) ==
    IF s = <<>> THEN <<>>
    ELSE IF StartsWith(s, pat) THEN rep \o ReplaceAll(Drop(s, Len(pat)), pat, rep)
    ELSE <<Head(s)>> \o ReplaceAll(Tail(s), pat, rep)

\* String.prototype.replace with a string pattern: the first occurrence only
RECURSIVE ReplaceFirst(_, _, _)
ReplaceFirst(s, pat, rep) ==
    IF StartsWith(s, pat) THEN rep \o Drop(s, Len(pat))
    ELSE IF s = <<>> THEN <<>>
    ELSE <<Head(s)>> \o ReplaceFirst(Tail(s), pat, rep)

DigitChars == <<"0", "1", "2", "3", "4", "5", "6", "7", "8", "9">>

IsDigit(c) == \E d \in 1..10 : DigitChars[d] = c

DigitVal(c) == (CHOOSE d \in 1..10 : DigitChars[d] = c) - 1

\* Number.prototype.toString for an integer (decimal notation)
RECURSIVE NatToString(_)
NatToString(n) ==
    IF n < 10 THEN <<DigitChars[n + 1]>>
    ELSE NatToString(n \div 10) \o <<DigitChars[(n % 10) + 1]>>

NumToString(n) == IF n < 0 THEN <<"-">> \o NatToString(-n) ELSE NatToString(n)

\* the longest prefix of s made of digits
RECURSIVE DigitPrefix(_)
DigitPrefix(s) ==
    IF s = <<>> \/ ~IsDigit(Head(s)) THEN <<>>
    ELSE <<Head(s)>> \o DigitPrefix(Tail(s))

RECURSIVE DigitsValue(_, _)
DigitsValue(s, acc) ==
    IF s = <<>> THEN acc ELSE DigitsValue(Tail(s), acc * 10 + DigitVal(Head(s)))

RECURSIVE TrimLeft(_)
TrimLeft(s) == IF s # <<>> /\ Head(s) = " " THEN TrimLeft(Tail(s)) ELSE s

\* parseInt(s, 10): leading blanks, an optional sign, then the digits that
\* follow; NaN when there is none
ParseInt(s) ==
    LET t == TrimLeft(s)
        neg == t # <<>> /\ Head(t) = "-"
        u == IF t # <<>> /\ Head(t) \in {"-", "+"} THEN Tail(t) ELSE t
        d == DigitPrefix(u)
    IN  IF d = <<>> THEN [n |-> 0, nan |-> TRUE]
        ELSE [n |-> IF neg THEN -DigitsValue(d, 0) ELSE DigitsValue(d, 0), nan |-> FALSE]

----------------------------------------------------------------------------
\* JavaScript values (the cached payload T, and the arguments of a call)

JVal(t, n, s) == [s |-> s, n |-> n, t |-> t]

JNull == JVal("null", 0, <<>>)
JUndef == JVal("undefined", 0, <<>>)
JNum(n) == JVal("number", n, <<>>)
JStr(s) == JVal("string", 0, s)
JBool(b) == JVal("boolean", IF b THEN 1 ELSE 0, <<>>)
\* an object that refers to itself: JSON.stringify throws on it
JCyclic == JVal("cyclic", 0, <<>>)
\* the number NaN
JNaN == JVal("nan", 0, <<>>)
\* a function (a callback passed in the place of another argument)
JFunc == JVal("function", 0, <<>>)

\* typeof v, for the values above
TypeOf(v) ==
    CASE v.t \in {"number", "nan"} -> "number"
      [] v.t \in {"null", "cyclic"} -> "object"
      [] OTHER -> v.t

\* JSON.stringify's escaping of a string's characters
RECURSIVE JsonEscape(_)
JsonEscape(s) ==
    IF s = <<>> THEN <<>>
    ELSE IF Head(s) \in {"\"", "\\"} THEN <<"\\", Head(s)>> \o JsonEscape(Tail(s))
    ELSE <<Head(s)>> \o JsonEscape(Tail(s))

\* (mutant) a string is written without its quotes
StringifyBare(v) ==
    CASE v.t = "null" -> [ok |-> TRUE, text |-> <<"n", "u", "l", "l">>]
      [] v.t = "number" -> [ok |-> TRUE, text |-> NumToString(v.n)]
      [] v.t = "string" -> [ok |-> TRUE, text |-> v.s]
      [] OTHER -> [ok |-> FALSE, text |-> <<>>]

\* (variant) a cyclic structure is written as an empty object
StringifyLoose(v) ==
    CASE v.t = "null" -> [ok |-> TRUE, text |-> <<"n", "u", "l", "l">>]
      [] v.t = "number" -> [ok |-> TRUE, text |-> NumToString(v.n)]
      [] v.t = "string" -> [ok |-> TRUE, text |-> <<"\"">> \o JsonEscape(v.s) \o <<"\"">>]
      [] OTHER -> [ok |-> TRUE, text |-> <<"{", "}">>]

\* JSON.stringify(value); ok = FALSE when it throws
Stringify(v) ==
    CASE v.t = "null" -> [ok |-> TRUE, text |-> <<"n", "u", "l", "l">>]
      [] v.t = "number" -> [ok |-> TRUE, text |-> NumToString(v.n)]
      [] v.t = "boolean" ->
            [ok |-> TRUE,
             text |-> IF v.n = 1 THEN <<"t", "r", "u", "e">> ELSE <<"f", "a", "l", "s", "e">>]
      [] v.t = "string" -> [ok |-> TRUE, text |-> <<"\"">> \o JsonEscape(v.s) \o <<"\"">>]
      [] OTHER -> [ok |-> FALSE, text |-> <<>>]

\* the characters of a JSON string literal's inside; ok = FALSE on a bare
\* quote or a dangling backslash
RECURSIVE JsonUnescape(_)
JsonUnescape(s) ==
    IF s = <<>> THEN [s |-> <<>>, ok |-> TRUE]
    ELSE IF Head(s) = "\"" THEN [s |-> <<>>, ok |-> FALSE]
    ELSE IF Head(s) = "\\" THEN
        IF Len(s) >= 2 /\ s[2] \in {"\"", "\\"} THEN
            LET r == JsonUnescape(Drop(s, 2))
            IN  [s |-> <<s[2]>> \o r.s, ok |-> r.ok]
        ELSE [s |-> <<>>, ok |-> FALSE]
    ELSE LET r == JsonUnescape(Tail(s))
         IN  [s |-> <<Head(s)>> \o r.s, ok |-> r.ok]

\* a JSON number made of digits only: no leading zero
IsJsonNat(s) ==
    /\ s # <<>>
    /\ DigitPrefix(s) = s
    /\ (Len(s) > 1 => Head(s) # "0")

\* JSON.parse(text); ok = FALSE when it throws
Parse(text) ==
    IF text = <<"n", "u", "l", "l">> THEN [v |-> JNull, ok |-> TRUE]
    ELSE IF text = <<"t", "r", "u", "e">> THEN [v |-> JBool(TRUE), ok |-> TRUE]
    ELSE IF text = <<"f", "a", "l", "s", "e">> THEN [v |-> JBool(FALSE), ok |-> TRUE]
    ELSE IF IsJsonNat(text) THEN [v |-> JNum(DigitsValue(text, 0)), ok |-> TRUE]
    ELSE IF Len(text) >= 2 /\ Head(text) = "-" /\ IsJsonNat(Tail(text)) THEN
        [v |-> JNum(-DigitsValue(Tail(text), 0)), ok |-> TRUE]
    ELSE IF Len(text) >= 2 /\ Head(text) = "\"" /\ text[Len(text)] = "\"" THEN
        LET r == JsonUnescape(SubSeq(text, 2, Len(text) - 1))
        IN  [v |-> JStr(r.s), ok |-> r.ok]
    ELSE [v |-> JUndef, ok |-> FALSE]

----------------------------------------------------------------------------
\* Configuration (S3StoreOptions after validateAndProcessOptions)

\* options.prefix
Prefix == <<"p", ":">>

\* options.defaultTtl ?? 60
DefaultTtl == 60

\* options.region ?? 'us-east-1'
DefaultRegion == <<"u", "s", "-", "e", "a", "s", "t", "-", "1">>

\* (variant) zero passes as a TTL
isValidTTLOrZero(v) == TypeOf(v) = "number" /\ v.t # "nan" /\ (v.n = -1 \/ v.n >= 0)

\* isValidTTL: a number that is -1 or > 0 (both comparisons are false of NaN)
isValidTTL(v) == TypeOf(v) = "number" /\ v.t # "nan" /\ (v.n = -1 \/ v.n > 0)

\* the options the constructor is given (the credentials, the endpoint and
\* the storage settings are left out; the prefix is Prefix)
Options(bucket, region, defaultTtl) ==
    [bucket |-> bucket, region |-> region, defaultTtl |-> defaultTtl]

\* validateAndProcessOptions does not throw a ConfigurationError
ValidOptions(options) ==
    /\ TypeOf(options.bucket) = "string" /\ options.bucket.s # <<>>
    /\ (options.defaultTtl.t = "undefined" \/ isValidTTL(options.defaultTtl))

\* the processed configuration of valid options
validateAndProcessOptions(options) ==
    [bucket |-> options.bucket.s,
     region |-> IF options.region.t \in {"undefined", "null"} THEN DefaultRegion
                ELSE options.region.s,
     defaultTtl |-> IF options.defaultTtl.t \in {"undefined", "null"} THEN DefaultTtl
                    ELSE options.defaultTtl.n]

\* new S3Store({bucket: 'b'})
DefaultOptions == Options(JStr(<<"b">>), JUndef, JUndef)

\* seconds to milliseconds in set's expireAt
MsPerSec == 1000

----------------------------------------------------------------------------
\* Key codec

SLASH_PLACEHOLDER == <<"_", "_", "S", "L", "A", "S", "H", "_", "_">>

\* isValidCacheKey: a string of length > 0
\* (variant) any string passes as a key
isValidCacheKeyAnyString(key) == TypeOf(key) = "string"

isValidCacheKey(key) == TypeOf(key) = "string" /\ Len(key.s) > 0

\* sanitize-filename, as formatKey calls it (replacement ''): the illegal
\* characters are removed, a name made only of dots is emptied, trailing
\* dots and blanks are removed, and the result is cut to 255 bytes.  (Its
\* rule for the reserved Windows device names needs letters that no key of
\* this model has.)
IllegalChars == {"/", "?", "<", ">", "\\", ":", "*", "|", "\""}

RECURSIVE StripTrailing(_)
StripTrailing(s) ==
    IF s # <<>> /\ s[Len(s)] \in {".", " "} THEN StripTrailing(SubSeq(s, 1, Len(s) - 1))
    ELSE s

sanitize(s) ==
    LET a == SelectSeq(s, LAMBDA c : c \notin IllegalChars)
        b == IF a # <<>> /\ \A i \in 1..Len(a) : a[i] = "." THEN <<>> ELSE a
        c == StripTrailing(b)
    IN  SubSeq(c, 1, IF Len(c) > 255 THEN 255 ELSE Len(c))

\* encodeURIComponent: the characters it leaves alone, and the escapes of
\* the others that this model's texts can hold
UnreservedMarks == {"-", "_", ".", "!", "~", "*", "'", "(", ")"}

Letters == {"a", "b", "p", "q", "A", "H", "L", "S"}

PctCode(c) ==
    CASE c = " " -> <<"%", "2", "0">>
      [] c = "\"" -> <<"%", "2", "2">>
      [] c = "#" -> <<"%", "2", "3">>
      [] c = "%" -> <<"%", "2", "5">>
      [] c = "/" -> <<"%", "2", "F">>
      [] c = ":" -> <<"%", "3", "A">>
      [] c = "<" -> <<"%", "3", "C">>
      [] c = ">" -> <<"%", "3", "E">>
      [] c = "?" -> <<"%", "3", "F">>
      [] c = "\\" -> <<"%", "5", "C">>
      [] c = "|" -> <<"%", "7", "C">>

PctChars == {" ", "\"", "#", "%", "/", ":", "<", ">", "?", "\\", "|"}

RECURSIVE encodeURIComponent(_)
encodeURIComponent(s) ==
    IF s = <<>> THEN <<>>
    ELSE IF Head(s) \in PctChars THEN PctCode(Head(s)) \o encodeURIComponent(Tail(s))
    ELSE <<Head(s)>> \o encodeURIComponent(Tail(s))

\* decodeURIComponent; ok = FALSE when it throws URIError (a '%' that does
\* not start an escape)
RECURSIVE decodeURIComponent(_)
decodeURIComponent(s) ==
    IF s = <<>> THEN [s |-> <<>>, ok |-> TRUE]
    ELSE IF Head(s) = "%" THEN
        IF Len(s) >= 3 /\ \E c \in PctChars : PctCode(c) = SubSeq(s, 1, 3) THEN
            LET c == CHOOSE x \in PctChars : PctCode(x) = SubSeq(s, 1, 3)
                r == decodeURIComponent(Drop(s, 3))
            IN  [s |-> <<c>> \o r.s, ok |-> r.ok]
        ELSE [s |-> <<>>, ok |-> FALSE]
    ELSE LET r == decodeURIComponent(Tail(s))
         IN  [s |-> <<Head(s)>> \o r.s, ok |-> r.ok]

\* the part of formatKey (and of scan's pattern) after validation and before
\* the prefix
EncodeKeyPart(key) ==
    LET keyWithPlaceholders == ReplaceAll(key, <<"/">>, SLASH_PLACEHOLDER)
        sanitized == sanitize(keyWithPlaceholders)
        encoded == encodeURIComponent(sanitized)
    IN  ReplaceAll(encoded, encodeURIComponent(SLASH_PLACEHOLDER), <<"/">>)

\* formatKey of a valid key
formatKey(key) == Prefix \o EncodeKeyPart(key)

----------------------------------------------------------------------------
\* The object store (external): objects, errors, responses

\* a stored object: Body, Metadata['cache-ttl'] (<<>>: not set),
\* Metadata['cache-created']; 'by' records which set wrote it (0: none)
Obj(body, ttl, created, by) ==
    [body |-> body, ttl |-> ttl, created |-> created, by |-> by, exists |-> TRUE]

NoObj == [body |-> <<>>, ttl |-> <<>>, created |-> <<>>, by |-> 0, exists |-> FALSE]

\* a rejected request: error.name and error.$metadata.httpStatusCode
\* (0: the error carries no status)
StoreErr(name, status) == [name |-> name, status |-> status]

NoStoreErr == StoreErr("", 0)
ErrNoSuchKey == StoreErr("NoSuchKey", 404)
ErrNoSuchBucket == StoreErr("NoSuchBucket", 404)
ErrInternal == StoreErr("InternalError", 500)
ErrTimeout == StoreErr("TimeoutError", 0)

\* a rejection that is no Error: it has a status, but no name and no message
ErrOpaque == StoreErr("", 503)

\* what the store may answer to any request instead of serving it
Failures == {ErrNoSuchBucket, ErrInternal}

\* how the bucket probe of healthCheck may fail besides: the network, a
\* rejection without a message
HeadFailures == Failures \cup {ErrTimeout, ErrOpaque}

\* error.message of a rejection (JUndef: it has none)
Message(e) ==
    CASE e.name = "NoSuchBucket" -> JStr(<<"n", "o", " ", "b", "u", "c", "k", "e", "t">>)
      [] e.name = "InternalError" -> JStr(<<"i", "n", "t", "e", "r", "n", "a", "l">>)
      [] e.name = "TimeoutError" -> JStr(<<"t", "i", "m", "e", "o", "u", "t">>)
      [] OTHER -> JUndef

\* a request may be failed while fewer than MaxFailures have been
CanFail(o) == Cardinality({i \in DOMAIN o : o[i].resp.err \in HeadFailures}) < MaxFailures

Resp(ok, err, obj) == [ok |-> ok, err |-> err, obj |-> obj]

NoResp == Resp(FALSE, NoStoreErr, NoObj)
OkResp(obj) == Resp(TRUE, NoStoreErr, obj)
ErrResp(e) == Resp(FALSE, e, NoObj)

\* the ASCII order of the characters of this model's texts
CharOrder ==
    <<" ", "\"", "#", "%", "/", "0", "1", "2", "3", "4", "5", "6", "7", "8", "9", ":",
      "<", ">", "?", "A", "C", "E", "F", "H", "L", "S", "\\", "_", "a", "b", "p", "q", "|">>

CharCode(c) == CHOOSE n \in 1..Len(CharOrder) : CharOrder[n] = c

\* s sorts before t in the store's listing order (byte order)
RECURSIVE KeyLess(_, _)
KeyLess(s, t) ==
    IF t = <<>> THEN FALSE
    ELSE IF s = <<>> THEN TRUE
    ELSE IF Head(s) = Head(t) THEN KeyLess(Tail(s), Tail(t))
    ELSE CharCode(Head(s)) < CharCode(Head(t))

\* the keys of a set in listing order
RECURSIVE SortKeys(_)
SortKeys(ks) ==
    IF ks = {} THEN <<>>
    ELSE LET m == CHOOSE k \in ks : \A x \in ks \ {k} : KeyLess(k, x)
         IN  <<m>> \o SortKeys(ks \ {m})

\* a ListObjectsV2 answer: Contents (keys), IsTruncated, NextContinuationToken
Page(keys, truncated, token) == [keys |-> keys, truncated |-> truncated, token |-> token]

NoPage == Page(<<>>, FALSE, <<>>)

\* ListObjectsV2 on bucket s: the keys under the prefix that follow the
\* continuation token, at most max of them
ListPage(s, prefix, token, max) ==
    LET all == SortKeys({k \in DOMAIN s : /\ StartsWith(k, prefix)
                                          /\ (token # <<>> => KeyLess(token, k))})
        n == IF Len(all) > max THEN max ELSE Len(all)
    IN  Page(SubSeq(all, 1, n), Len(all) > n, IF Len(all) > n THEN all[n] ELSE <<>>)

\* (variant) PutObject keeps the expiry attribute of the object in place
\* when the new object has none
StorePutMerge(s, k, obj) ==
    [x \in DOMAIN s \cup {k} |->
        IF x # k THEN s[x]
        ELSE IF k \in DOMAIN s /\ obj.ttl = <<>> THEN [obj EXCEPT !.ttl = s[k].ttl]
        ELSE obj]

\* PutObject replaces the object of the key, body and metadata
StorePut(s, k, obj) == [x \in DOMAIN s \cup {k} |-> IF x = k THEN obj ELSE s[x]]

StoreRemove(s, ks) == [x \in DOMAIN s \ ks |-> s[x]]

----------------------------------------------------------------------------
\* Operations in flight

\* what a callback is invoked with: (error, result); err = "null" is no
\* error, otherwise the error's class name and its statusCode
Res(err, status, val) == [status |-> status, err |-> err, val |-> val]

NoRes == Res("", 0, JUndef)
MissRes == Res("null", 0, JNull)
ErrRes(name, status) == Res(name, status, JUndef)

\* who is called back: the user's callback, or the continuation that get
\* passes to del for its lazy cleanup, or the one scan passes to get
UserCb == [t |-> "user", parent |-> 0]
LazyCb(i) == [t |-> "lazy", parent |-> i]
ScanCb(i) == [t |-> "scan", parent |-> i]

NewOp(kind, key, val, ttl, cb) ==
    [key |-> key, ttl |-> ttl,
     resp |-> NoResp,     \* the store's answer, once executed
     token |-> <<>>,      \* clear: continuationToken (<<>>: undefined)
     val |-> val, kind |-> kind, cb |-> cb,
     pc |-> "req",        \* tick | req | resp | stream | lazy | thrown | done
     skey |-> <<>>,       \* the request's Key
     put |-> NoObj,       \* set: the object of the PutObject request
     pend |-> NoRes,      \* what process.nextTick will call back with
     calls |-> 0,         \* how often the callback was invoked
     res |-> NoRes,       \* what it was last invoked with
     at |-> now,          \* the clock when the call was made
     evalAt |-> 0,        \* get: the clock when the answer was handled
     sawExpired |-> FALSE, \* get: isExpired was true
     page |-> NoPage,     \* clear, scan: the listing answer, once executed
     objects |-> <<>>,    \* clear: the keys collected by listAllObjects
     batches |-> <<>>,    \* clear: the DeleteObjects requests
     completed |-> 0,     \* clear: completed
     hasError |-> FALSE,  \* clear: hasError
     lprefix |-> <<>>,    \* clear, scan: the listing's Prefix
     maxKeys |-> 0,       \* scan: the listing's MaxKeys (0: not given)
     processed |-> 0,     \* scan: processed
     entries |-> <<>>,    \* scan: entries
     cursor |-> JUndef,   \* scan: the cursor called back (0, 1 or a token)
     okClears |-> Cardinality({c \in DOMAIN ops : /\ ops[c].kind = "clear"
                                                  /\ ops[c].calls > 0
                                                  /\ ops[c].res.err = "null"})
                          \* how many clears had reported success at the call
    ]

Ids == 1..Len(ops)

UserCalls == Cardinality({i \in Ids : ops[i].cb.t = "user"})

\* the callback of operation i is invoked with r, and what the callback
\* does runs with it: del's callback in get's lazy cleanup invokes get's
\* callback with (null, null)
\* isDefined: neither undefined nor null
isDefined(v) == v.t # "undefined" /\ v.t # "null"

\* (variant) the sentinel of a truncated listing without a token is 0
ScanCursorZero(page) ==
    IF page.truncated THEN (IF page.token # <<>> THEN JStr(page.token) ELSE JNum(0))
    ELSE JNum(0)

\* scan's cursor: result.IsTruncated ? result.NextContinuationToken ?? 1 : 0
\* (a page's token <<>> is NextContinuationToken undefined)
ScanCursor(page) ==
    IF page.truncated THEN (IF page.token # <<>> THEN JStr(page.token) ELSE JNum(1))
    ELSE JNum(0)

\* (variant) the entry is kept whatever the lookup reported
ScanLookupAll(o, s, key, r) ==
    [o EXCEPT ![s].processed = @ + 1,
              ![s].entries = Append(@, [key |-> key, data |-> r.val])]

\* the callback scan s passes to get(originalKey), up to its last test:
\* count the lookup, keep the entry of a hit
ScanLookup(o, s, key, r) ==
    LET hit == r.err = "null" /\ r.val # JNull /\ isDefined(r.val)
    IN  [o EXCEPT ![s].processed = @ + 1,
                  ![s].entries = IF hit THEN Append(@, [key |-> key, data |-> r.val]) ELSE @]

\* (variant) scan's callback is due as soon as a lookup has called back
ScanDueAny(o, s) == o[s].processed >= 1

\* the last test of that callback: processed === objects.length
ScanDue(o, s) == o[s].processed = Len(o[s].page.keys)

RECURSIVE Deliver(_, _, _)
\* (variant) the continuation of get's lazy cleanup passes on what del reported
DeliverLazyOutcome(o, i, r) ==
    LET o1 == [o EXCEPT ![i].calls = @ + 1, ![i].res = r, ![i].pc = "done"]
    IN  CASE o[i].cb.t = "user" -> o1
          [] o[i].cb.t = "lazy" -> Deliver(o1, o[i].cb.parent, r)
          [] o[i].cb.t = "scan" ->
                LET s == o[i].cb.parent
                    o2 == ScanLookup(o1, s, o[i].key, r)
                IN  IF ScanDue(o2, s)
                    THEN Deliver([o2 EXCEPT ![s].cursor = ScanCursor(o2[s].page)], s,
                                 Res("null", 0, JVal("scan", 0, <<>>)))
                    ELSE o2

Deliver(o, i, r) ==
    LET o1 == [o EXCEPT ![i].calls = @ + 1, ![i].res = r, ![i].pc = "done"]
    IN  CASE o[i].cb.t = "user" -> o1
          [] o[i].cb.t = "lazy" -> Deliver(o1, o[i].cb.parent, MissRes)
          [] o[i].cb.t = "scan" ->
                LET s == o[i].cb.parent
                    o2 == ScanLookup(o1, s, o[i].key, r)
                IN  IF ScanDue(o2, s)
                    THEN Deliver([o2 EXCEPT ![s].cursor = ScanCursor(o2[s].page)], s,
                                 Res("null", 0, JVal("scan", 0, <<>>)))
                    ELSE o2

\* (variant) the callback is invoked with the error before the call returns
DeferredSync(op, r) == [op EXCEPT !.pc = "done", !.calls = 1, !.res = r]

\* validation failed (or the synchronous part threw): the error is handed
\* to process.nextTick
Deferred(op, r) == [op EXCEPT !.pc = "tick", !.pend = r]

----------------------------------------------------------------------------
\* The clock

ClockVals == {s * MsPerSec + e : s \in 0..MaxSec, e \in 0..MaxMs}

\* (variant) a sweeper removes the entries whose expiry has passed
TickSweep ==
    /\ \E c \in ClockVals :
          /\ c > now /\ now' = c
          /\ store' = [k \in {x \in DOMAIN store : store[x].ttl = <<>>
                                                   \/ ParseInt(store[x].ttl).n >= c} |->
                          store[k]]
    /\ UNCHANGED <<ops, config>>

\* time passes
Tick ==
    /\ \E c \in ClockVals : c > now /\ now' = c
    /\ UNCHANGED <<store, ops, config>>

\* process.nextTick(() => callback(error))
NextTick(i) ==
    /\ ops[i].pc = "tick"
    /\ ops' = Deliver(ops, i, ops[i].pend)
    /\ UNCHANGED <<store, now, config>>

----------------------------------------------------------------------------
\* get

\* (mutant) an entry with an expiry attribute is never taken as expired
isExpiredNever(ttl) == FALSE

\* (mutant) the entry expires at its expiry time, not after it
isExpiredAt(ttl) ==
    IF ttl = <<>> THEN FALSE
    ELSE LET expirationTime == ParseInt(ttl)
         IN  ~expirationTime.nan /\ now >= expirationTime.n

isExpired(ttl) ==
    IF ttl = <<>> THEN FALSE
    ELSE LET expirationTime == ParseInt(ttl)
         IN  ~expirationTime.nan /\ now > expirationTime.n

\* del(key, callback) up to the request being sent
\* (variant) del sends the encoded key without the prefix
StartDelUnprefixed(key, cb) ==
    IF ~isValidCacheKey(key) THEN
        Deferred(NewOp("del", key, JUndef, JUndef, cb), ErrRes("ConfigurationError", 0))
    ELSE [NewOp("del", key, JUndef, JUndef, cb) EXCEPT !.skey = EncodeKeyPart(key.s)]

\* del(key, callback) up to the request being sent
StartDel(key, cb) ==
    IF ~isValidCacheKey(key) THEN
        Deferred(NewOp("del", key, JUndef, JUndef, cb), ErrRes("ConfigurationError", 0))
    ELSE [NewOp("del", key, JUndef, JUndef, cb) EXCEPT !.skey = formatKey(key.s)]

\* get(key, callback) up to the request being sent
StartGet(key, cb) ==
    IF ~isValidCacheKey(key) THEN
        Deferred(NewOp("get", key, JUndef, JUndef, cb), ErrRes("ConfigurationError", 0))
    ELSE [NewOp("get", key, JUndef, JUndef, cb) EXCEPT !.skey = formatKey(key.s)]

GetCall(n, key) ==
    /\ UserCalls < n
    /\ ops' = Append(ops, StartGet(key, UserCb))
    /\ UNCHANGED <<store, now, config>>

\* the store executes GetObject
StoreGetObject(i) ==
    /\ ops[i].kind = "get" /\ ops[i].pc = "req"
    /\ \E r \in (IF ops[i].skey \in DOMAIN store
                 THEN {OkResp(store[ops[i].skey])}
                 ELSE {ErrResp(ErrNoSuchKey)})
                \cup {ErrResp(e) : e \in IF CanFail(ops) THEN Failures ELSE {}} :
          ops' = [ops EXCEPT ![i].pc = "resp", ![i].resp = r]
    /\ UNCHANGED <<store, now, config>>

\* .then of get: the TTL check, then either the lazy cleanup or the read of
\* the body stream
GetThen(i) ==
    /\ ops[i].kind = "get" /\ ops[i].pc = "resp" /\ ops[i].resp.ok
    /\ IF isExpired(ops[i].resp.obj.ttl)
       THEN ops' = Append([ops EXCEPT ![i].pc = "lazy", ![i].evalAt = now,
                                      ![i].sawExpired = TRUE],
                          StartDel(ops[i].key, LazyCb(i)))
       ELSE ops' = [ops EXCEPT ![i].pc = "stream", ![i].evalAt = now]
    /\ UNCHANGED <<store, now, config>>

\* (variant) a body that does not parse is taken as a miss and removed
GetStreamPurge(i) ==
    /\ ops[i].kind = "get" /\ ops[i].pc = "stream"
    /\ LET p == Parse(ops[i].resp.obj.body)
       IN  \/ /\ ops' = Deliver(ops, i, IF p.ok THEN Res("null", 0, p.v) ELSE MissRes)
              /\ store' = IF p.ok THEN store ELSE StoreRemove(store, {ops[i].skey})
           \/ ops' = Deliver(ops, i, ErrRes("S3OperationError", 0)) /\ UNCHANGED store
    /\ UNCHANGED <<now, config>>

\* streamToString's 'end' (JSON.parse of the text) or 'error'
GetStream(i) ==
    /\ ops[i].kind = "get" /\ ops[i].pc = "stream"
    /\ \/ LET p == Parse(ops[i].resp.obj.body)
          IN  ops' = Deliver(ops, i, IF p.ok THEN Res("null", 0, p.v)
                                     ELSE ErrRes("SerializationError", 0))
       \/ ops' = Deliver(ops, i, ErrRes("S3OperationError", 0))
    /\ UNCHANGED <<store, now, config>>

\* (mutant) only the error name is looked at
IsNotFoundByName(e) == e.name = "NoSuchKey"

\* (variant) every error answer of the store counts as not found
IsNotFoundAnyStatus(e) == e.name = "NoSuchKey" \/ e.status >= 400

\* the not-found test of get's .catch
IsNotFound(e) == e.name = "NoSuchKey" \/ e.status = 404

\* .catch of get
GetCatch(i) ==
    /\ ops[i].kind = "get" /\ ops[i].pc = "resp" /\ ~ops[i].resp.ok
    /\ ops' = Deliver(ops, i, IF IsNotFound(ops[i].resp.err) THEN MissRes
                              ELSE ErrRes("S3OperationError", ops[i].resp.err.status))
    /\ UNCHANGED <<store, now, config>>

----------------------------------------------------------------------------
\* set

\* the TTL argument of set is left out: it is undefined, or the callback is
\* passed in its place
NoTtl(ttl) == TypeOf(ttl) \in {"undefined", "function"}

\* (variant) a set without a TTL never expires
ActualTtlInfinite(ttl) == IF NoTtl(ttl) THEN -1 ELSE ttl.n

\* the TTL set uses: the argument, or the default when it is left out
ActualTtl(ttl) == IF NoTtl(ttl) THEN config.defaultTtl ELSE ttl.n

\* (mutant) the expiry attribute is written whatever the TTL
PutObjectAlwaysTtl(i, value, actualTtl) ==
    LET expireAt == IF actualTtl = -1 THEN -1 ELSE now + (actualTtl * MsPerSec)
    IN  Obj(Stringify(value).text, NumToString(expireAt), NumToString(now), i)

\* the object set sends: the serialized body, 'cache-ttl' unless the TTL is
\* -1, 'cache-created'
PutObject(i, value, actualTtl) ==
    LET expireAt == IF actualTtl = -1 THEN -1 ELSE now + (actualTtl * MsPerSec)
    IN  Obj(Stringify(value).text,
            IF expireAt # -1 THEN NumToString(expireAt) ELSE <<>>,
            NumToString(now), i)

\* (variant) the value is tested before the TTL
StartSetValueFirst(i, key, value, ttl, cb) ==
    LET op == NewOp("set", key, value, ttl, cb)
    IN  IF value.t = "undefined" THEN Deferred(op, ErrRes("SerializationError", 0))
        ELSE IF ~NoTtl(ttl) /\ ~isValidTTL(ttl) THEN Deferred(op, ErrRes("TTLError", 0))
        ELSE IF ~isValidCacheKey(key) THEN Deferred(op, ErrRes("ConfigurationError", 0))
        ELSE IF ~Stringify(value).ok THEN Deferred(op, ErrRes("SerializationError", 0))
        ELSE [op EXCEPT !.skey = formatKey(key.s),
                        !.put = PutObject(i, value, ActualTtl(ttl))]

\* set(key, value, ttl, callback) up to the request being sent; i is the
\* operation's place in ops
StartSet(i, key, value, ttl, cb) ==
    LET op == NewOp("set", key, value, ttl, cb)
    IN  IF ~NoTtl(ttl) /\ ~isValidTTL(ttl) THEN Deferred(op, ErrRes("TTLError", 0))
        ELSE IF value.t = "undefined" THEN Deferred(op, ErrRes("SerializationError", 0))
        ELSE IF ~isValidCacheKey(key) THEN Deferred(op, ErrRes("ConfigurationError", 0))
        ELSE IF ~Stringify(value).ok THEN Deferred(op, ErrRes("SerializationError", 0))
        ELSE [op EXCEPT !.skey = formatKey(key.s),
                        !.put = PutObject(i, value, ActualTtl(ttl))]

SetCall(n, key, value, ttl) ==
    /\ UserCalls < n
    /\ ops' = Append(ops, StartSet(Len(ops) + 1, key, value, ttl, UserCb))
    /\ UNCHANGED <<store, now, config>>

\* set when the clock advances while it runs: 'cache-created' is a second
\* reading of Date.now(), taken after expireAt was computed from the first
SetCallLate(n, key, value, ttl) ==
    /\ UserCalls < n
    /\ \E created \in ClockVals :
          /\ created >= now
          /\ now' = created
          /\ LET op == StartSet(Len(ops) + 1, key, value, ttl, UserCb)
             IN  ops' = Append(ops, IF op.pc = "req"
                                    THEN [op EXCEPT !.put.created = NumToString(created)]
                                    ELSE op)
    /\ UNCHANGED <<store, config>>

\* (variant) the store replaces an object in two steps: it first removes
\* the one in place
StorePutObjectGap(i) ==
    /\ ops[i].kind = "set" /\ ops[i].pc = "req"
    /\ IF ops[i].skey \in DOMAIN store /\ store[ops[i].skey].by # i
       THEN store' = StoreRemove(store, {ops[i].skey}) /\ UNCHANGED ops
       ELSE /\ store' = StorePut(store, ops[i].skey, ops[i].put)
            /\ ops' = [ops EXCEPT ![i].pc = "resp", ![i].resp = OkResp(NoObj)]
    /\ UNCHANGED <<now, config>>

\* the store executes PutObject
StorePutObject(i) ==
    /\ ops[i].kind = "set" /\ ops[i].pc = "req"
    /\ \/ /\ store' = StorePut(store, ops[i].skey, ops[i].put)
          /\ ops' = [ops EXCEPT ![i].pc = "resp", ![i].resp = OkResp(NoObj)]
       \/ /\ CanFail(ops)
          /\ \E e \in Failures :
                ops' = [ops EXCEPT ![i].pc = "resp", ![i].resp = ErrResp(e)]
          /\ UNCHANGED store
    /\ UNCHANGED <<now, config>>

\* .then / .catch of set
SetReply(i) ==
    /\ ops[i].kind = "set" /\ ops[i].pc = "resp"
    /\ ops' = Deliver(ops, i, IF ops[i].resp.ok THEN Res("null", 0, ops[i].val)
                              ELSE ErrRes("S3OperationError", ops[i].resp.err.status))
    /\ UNCHANGED <<store, now, config>>

----------------------------------------------------------------------------
\* del

DelCall(n, key) ==
    /\ UserCalls < n
    /\ ops' = Append(ops, StartDel(key, UserCb))
    /\ UNCHANGED <<store, now, config>>

\* the store executes DeleteObject (no error when the key does not exist)
StoreDeleteObject(i) ==
    /\ ops[i].kind = "del" /\ ops[i].pc = "req"
    /\ \/ /\ store' = StoreRemove(store, {ops[i].skey})
          /\ ops' = [ops EXCEPT ![i].pc = "resp", ![i].resp = OkResp(NoObj)]
       \/ /\ CanFail(ops)
          /\ \E e \in Failures :
                ops' = [ops EXCEPT ![i].pc = "resp", ![i].resp = ErrResp(e)]
          /\ UNCHANGED store
    /\ UNCHANGED <<now, config>>

\* (variant) del calls back from its .then only
DelReplyThenOnly(i) ==
    /\ ops[i].kind = "del" /\ ops[i].pc = "resp" /\ ops[i].resp.ok
    /\ ops' = Deliver(ops, i, Res("null", 0, JUndef))
    /\ UNCHANGED <<store, now, config>>

\* .then / .catch of del
DelReply(i) ==
    /\ ops[i].kind = "del" /\ ops[i].pc = "resp"
    /\ ops' = Deliver(ops, i, IF ops[i].resp.ok THEN Res("null", 0, JUndef)
                              ELSE ErrRes("S3OperationError", ops[i].resp.err.status))
    /\ UNCHANGED <<store, now, config>>

----------------------------------------------------------------------------
\* healthCheck

HealthCall(n) ==
    /\ UserCalls < n
    /\ ops' = Append(ops, NewOp("health", JUndef, JUndef, JUndef, UserCb))
    /\ UNCHANGED <<store, now, config>>

\* the store executes HeadBucket
StoreHeadBucket(i) ==
    /\ ops[i].kind = "health" /\ ops[i].pc = "req"
    /\ \E r \in {OkResp(NoObj)}
                \cup {ErrResp(e) : e \in IF CanFail(ops) THEN HeadFailures ELSE {}} :
          ops' = [ops EXCEPT ![i].pc = "resp", ![i].resp = r]
    /\ UNCHANGED <<store, now, config>>

\* the text 'Unknown error'
UnknownError == <<"U", "n", "k", "n", "o", "w", "n", " ", "e", "r", "r", "o", "r">>

\* a HealthCheckResult; error = JUndef: the result has no error property
HealthResult(status, error) ==
    [bucket |-> config.bucket, region |-> config.region, status |-> status,
     error |-> error, sdkVersion |-> <<"v", "3">>]

\* (variant) a failed probe is passed on as an error
HealthReplyError(i) ==
    /\ ops[i].kind = "health" /\ ops[i].pc = "resp"
    /\ ops' = Deliver(ops, i, IF ops[i].resp.ok
                              THEN Res("null", 0, HealthResult("healthy", JUndef))
                              ELSE ErrRes("S3OperationError", ops[i].resp.err.status))
    /\ UNCHANGED <<store, now, config>>

\* .then / .catch of healthCheck: the error argument is null either way,
\* and the result's error is errorObj.message ?? 'Unknown error'
HealthReply(i) ==
    /\ ops[i].kind = "health" /\ ops[i].pc = "resp"
    /\ LET message == Message(ops[i].resp.err)
       IN  ops' = Deliver(ops, i, Res("null", 0,
                     IF ops[i].resp.ok THEN HealthResult("healthy", JUndef)
                     ELSE HealthResult("unhealthy",
                                       IF message.t \in {"undefined", "null"}
                                       THEN JStr(UnknownError) ELSE message)))
    /\ UNCHANGED <<store, now, config>>

----------------------------------------------------------------------------
\* A user callback that raises an exception when it is invoked with a
\* success

\* error.message of what the callback throws
ThrownMessage == JStr(<<"t", "h", "r", "o", "w", "n">>)

\* what the .then of set, del or healthCheck i passes to the callback
ThenResult(i) ==
    CASE ops[i].kind = "set" -> Res("null", 0, ops[i].val)
      [] ops[i].kind = "del" -> Res("null", 0, JUndef)
      [] ops[i].kind = "health" -> Res("null", 0, HealthResult("healthy", JUndef))

\* what the .catch of set, del or healthCheck i passes to the callback for
\* the exception (it carries no $metadata)
CatchResult(i) ==
    CASE ops[i].kind = "set" -> ErrRes("S3OperationError", 0)
      [] ops[i].kind = "del" -> ErrRes("S3OperationError", 0)
      [] ops[i].kind = "health" -> Res("null", 0, HealthResult("unhealthy", ThrownMessage))

\* .then of set, del or healthCheck: the callback is invoked and throws,
\* which rejects the promise that the .catch is chained to
ThenThrows(i) ==
    /\ ops[i].kind \in {"set", "del", "health"} /\ ops[i].cb = UserCb
    /\ ops[i].pc = "resp" /\ ops[i].resp.ok
    /\ ops' = [Deliver(ops, i, ThenResult(i)) EXCEPT ![i].pc = "thrown"]
    /\ UNCHANGED <<store, now, config>>

\* .catch of set, del or healthCheck, run for the callback's exception
CatchThrown(i) ==
    /\ ops[i].pc = "thrown"
    /\ ops' = Deliver(ops, i, CatchResult(i))
    /\ UNCHANGED <<store, now, config>>

\* streamToString's 'end' in get: callback(null, value) stands inside the
\* try of JSON.parse, so its exception is caught as a parse error
GetStreamThrows(i) ==
    /\ ops[i].kind = "get" /\ ops[i].pc = "stream" /\ ops[i].cb = UserCb
    /\ Parse(ops[i].resp.obj.body).ok
    /\ ops' = Deliver(Deliver(ops, i, Res("null", 0, Parse(ops[i].resp.obj.body).v)), i,
                      ErrRes("SerializationError", 0))
    /\ UNCHANGED <<store, now, config>>

----------------------------------------------------------------------------
\* clear

\* the keys-per-DeleteObjects limit of clear.  The source has 1000; the
\* model takes 2, so that a handful of keys makes several batches.
BatchLimit == 2

\* (mutant) only full chunks are made: the remainder is dropped
RECURSIVE chunkArrayWhole(_, _)
chunkArrayWhole(array, chunkSize) ==
    IF Len(array) < chunkSize THEN <<>>
    ELSE <<SubSeq(array, 1, chunkSize)>> \o chunkArrayWhole(Drop(array, chunkSize), chunkSize)

\* (variant) a chunk takes one element more than the size
RECURSIVE chunkArrayOver(_, _)
chunkArrayOver(array, chunkSize) ==
    IF array = <<>> THEN <<>>
    ELSE LET n == IF Len(array) > chunkSize + 1 THEN chunkSize + 1 ELSE Len(array)
         IN  <<SubSeq(array, 1, n)>> \o chunkArrayOver(Drop(array, n), chunkSize)

RECURSIVE chunkArray(_, _)
chunkArray(array, chunkSize) ==
    IF array = <<>> THEN <<>>
    ELSE LET n == IF Len(array) > chunkSize THEN chunkSize ELSE Len(array)
         IN  <<SubSeq(array, 1, n)>> \o chunkArray(Drop(array, n), chunkSize)

\* a DeleteObjects request of clear: its keys, the store's answer ("" while
\* none, then "ok" or "err" with the error), whether its promise handler has
\* run, and the place of that handler among the batch handlers run so far
Batch(keys) == [err |-> NoStoreErr, keys |-> keys, out |-> "", handled |-> FALSE, seq |-> 0]

\* (variant) clear lists the bucket without a Prefix
ClearCallAll(n) ==
    /\ UserCalls < n
    /\ ops' = Append(ops, NewOp("clear", JUndef, JUndef, JUndef, UserCb))
    /\ UNCHANGED <<store, now, config>>

\* clear() up to the first ListObjectsV2 of listAllObjects being sent
ClearCall(n) ==
    /\ UserCalls < n
    /\ ops' = Append(ops, [NewOp("clear", JUndef, JUndef, JUndef, UserCb) EXCEPT
                               !.lprefix = Prefix])
    /\ UNCHANGED <<store, now, config>>

\* the store executes the ListObjectsV2 of listAllObjects or of scan
StoreListObjects(i) ==
    /\ ops[i].kind \in {"clear", "scan"} /\ ops[i].pc = "req"
    /\ \/ ops' = [ops EXCEPT ![i].pc = "resp", ![i].resp = OkResp(NoObj),
                             ![i].page = ListPage(store, ops[i].lprefix, ops[i].token,
                                                  IF ops[i].maxKeys \in 1..PageSize
                                                  THEN ops[i].maxKeys ELSE PageSize)]
       \/ /\ CanFail(ops)
          /\ \E e \in Failures :
                ops' = [ops EXCEPT ![i].pc = "resp", ![i].resp = ErrResp(e)]
    /\ UNCHANGED <<store, now, config>>

\* the same by a store that marks a page truncated and supplies no
\* NextContinuationToken
StoreListNoToken(i) ==
    /\ ops[i].kind \in {"clear", "scan"} /\ ops[i].pc = "req"
    /\ LET p == ListPage(store, ops[i].lprefix, ops[i].token,
                         IF ops[i].maxKeys \in 1..PageSize THEN ops[i].maxKeys ELSE PageSize)
       IN  /\ p.truncated
           /\ ops' = [ops EXCEPT ![i].pc = "resp", ![i].resp = OkResp(NoObj),
                                 ![i].page = Page(p.keys, TRUE, <<>>)]
    /\ UNCHANGED <<store, now, config>>

\* clear's callback to listAllObjects, given the collected keys: nothing to
\* delete, or every batch's DeleteObjects is sent
ClearListed(o, i, objects) ==
    IF objects = <<>> THEN Deliver(o, i, Res("null", 0, JUndef))
    ELSE LET batches == chunkArray(objects, BatchLimit)
         IN  [o EXCEPT ![i].pc = "deleting", ![i].objects = objects,
                       ![i].batches = [b \in DOMAIN batches |-> Batch(batches[b])]]

\* .then / .catch of listBatch
ClearListReply(i) ==
    /\ ops[i].kind = "clear" /\ ops[i].pc = "resp"
    /\ IF ops[i].resp.ok THEN
          LET objects == ops[i].objects \o ops[i].page.keys
          IN  IF ops[i].page.truncated
              THEN ops' = [ops EXCEPT ![i].pc = "req", ![i].objects = objects,
                                      ![i].token = ops[i].page.token]
              ELSE ops' = ClearListed(ops, i, objects)
       ELSE ops' = Deliver(ops, i, ErrRes("S3OperationError", ops[i].resp.err.status))
    /\ UNCHANGED <<store, now, config>>

\* (variant) the requests still in flight are dropped once clear has failed
StoreDeleteObjectsAborted(i, b) ==
    /\ ops[i].kind = "clear" /\ b \in DOMAIN ops[i].batches
    /\ ops[i].batches[b].out = "" /\ ~ops[i].hasError
    /\ \/ /\ store' = StoreRemove(store, {ops[i].batches[b].keys[j] :
                                              j \in DOMAIN ops[i].batches[b].keys})
          /\ ops' = [ops EXCEPT ![i].batches[b].out = "ok"]
       \/ /\ \E e \in Failures :
                ops' = [ops EXCEPT ![i].batches[b].out = "err", ![i].batches[b].err = e]
          /\ UNCHANGED store
    /\ UNCHANGED <<now, config>>

\* the store executes the DeleteObjects of batch b
StoreDeleteObjects(i, b) ==
    /\ ops[i].kind = "clear" /\ b \in DOMAIN ops[i].batches
    /\ ops[i].batches[b].out = ""
    /\ \/ /\ store' = StoreRemove(store, {ops[i].batches[b].keys[j] :
                                              j \in DOMAIN ops[i].batches[b].keys})
          /\ ops' = [ops EXCEPT ![i].batches[b].out = "ok"]
       \/ /\ \E e \in Failures :
                ops' = [ops EXCEPT ![i].batches[b].out = "err", ![i].batches[b].err = e]
          /\ UNCHANGED store
    /\ UNCHANGED <<now, config>>

\* .then of a batch's DeleteObjects
ClearThen(o, i) ==
    IF o[i].hasError THEN o
    ELSE IF o[i].completed + 1 = Len(o[i].batches)
         THEN Deliver([o EXCEPT ![i].completed = @ + 1], i, Res("null", 0, JUndef))
         ELSE [o EXCEPT ![i].completed = @ + 1]

\* (mutant) every failing batch reports its error
ClearCatchUnguarded(o, i, e) ==
    Deliver([o EXCEPT ![i].hasError = TRUE], i, ErrRes("S3OperationError", e.status))

\* (mutant) a failing batch counts as a completed one
ClearCatchSwallow(o, i, e) == ClearThen(o, i)

\* .catch of a batch's DeleteObjects
ClearCatch(o, i, e) ==
    IF o[i].hasError THEN o
    ELSE Deliver([o EXCEPT ![i].hasError = TRUE], i, ErrRes("S3OperationError", e.status))

\* the promise handler of batch b runs
ClearBatchReply(i, b) ==
    /\ ops[i].kind = "clear" /\ b \in DOMAIN ops[i].batches
    /\ ops[i].batches[b].out # "" /\ ~ops[i].batches[b].handled
    /\ LET n == Cardinality({x \in DOMAIN ops[i].batches : ops[i].batches[x].handled})
           o == [ops EXCEPT ![i].batches[b].handled = TRUE, ![i].batches[b].seq = n + 1]
       IN  ops' = IF ops[i].batches[b].out = "ok" THEN ClearThen(o, i)
                  ELSE ClearCatch(o, i, ops[i].batches[b].err)
    /\ UNCHANGED <<store, now, config>>

----------------------------------------------------------------------------
\* scan

\* scan(pattern, limit, callback) up to the request being sent; the pattern
\* is encoded as a key is
ScanCall(n, pattern, limit) ==
    /\ UserCalls < n
    /\ ops' = Append(ops, [NewOp("scan", JStr(pattern), JUndef, JUndef, UserCb) EXCEPT
                               !.lprefix = IF pattern # <<>> THEN Prefix \o EncodeKeyPart(pattern)
                                           ELSE Prefix,
                               !.maxKeys = limit])
    /\ UNCHANGED <<store, now, config>>

\* the logical key scan derives from a listed storage key
OriginalKey(k) == decodeURIComponent(ReplaceFirst(k, Prefix, <<>>))

\* the get calls of scan's forEach over keys j.. of the page: one lookup per
\* key, until a key's decodeURIComponent throws
RECURSIVE ScanLookups(_, _, _)
ScanLookups(o, i, j) ==
    IF j > Len(o[i].page.keys) \/ ~OriginalKey(o[i].page.keys[j]).ok THEN o
    ELSE LET op == StartGet(JStr(OriginalKey(o[i].page.keys[j]).s), ScanCb(i))
         IN  ScanLookups(Append(o, [op EXCEPT !.okClears = 0]), i, j + 1)

\* .then of scan's listing
ScanThen(i) ==
    /\ ops[i].kind = "scan" /\ ops[i].pc = "resp" /\ ops[i].resp.ok
    /\ IF ops[i].page.keys = <<>>
       THEN ops' = Deliver([ops EXCEPT ![i].cursor = JNum(0)], i,
                           Res("null", 0, JVal("scan", 0, <<>>)))
       ELSE LET o == ScanLookups([ops EXCEPT ![i].pc = "lookups"], i, 1)
            IN  IF \A j \in DOMAIN ops[i].page.keys : OriginalKey(ops[i].page.keys[j]).ok
                THEN ops' = o
                ELSE ops' = Deliver(o, i, ErrRes("S3OperationError", 0))
    /\ UNCHANGED <<store, now, config>>

\* .catch of scan's listing
ScanCatch(i) ==
    /\ ops[i].kind = "scan" /\ ops[i].pc = "resp" /\ ~ops[i].resp.ok
    /\ ops' = Deliver(ops, i, ErrRes("S3OperationError", ops[i].resp.err.status))
    /\ UNCHANGED <<store, now, config>>

----------------------------------------------------------------------------
\* The core specification: get, set and del over two keys, and the clock

Keys == {<<"a", "/", "#">>}
Values == {JNum(1), JStr(<<"1">>)}
Ttls == {JNum(-1), JNum(1)}

Init ==
    /\ store = <<>>
    /\ now = 0
    /\ config = validateAndProcessOptions(DefaultOptions)
    /\ ops = <<>>

\* the steps of the store and of the promise handlers
Progress(i) ==
    \/ NextTick(i)
    \/ StoreGetObject(i)
    \/ GetThen(i)
    \/ GetStream(i)
    \/ GetCatch(i)
    \/ StorePutObject(i)
    \/ SetReply(i)
    \/ StoreDeleteObject(i)
    \/ DelReply(i)

Next ==
    \/ \E k \in Keys : GetCall(MaxCalls, JStr(k))
    \/ \E k \in Keys, v \in Values, t \in Ttls : SetCall(MaxCalls, JStr(k), v, t)
    \/ \E i \in Ids : Progress(i)
    \/ Tick

Spec == Init /\ [][Next]_vars

----------------------------------------------------------------------------
\* Properties of get and set (under Spec)

Gets == {i \in Ids : ops[i].kind = "get"}

\* get i has received an object and run the TTL check on it
Evaluated(i) == ops[i].resp.ok /\ ops[i].pc \in {"stream", "lazy", "done"}

\* get i has called back after reading the body stream to its end
ReadThrough(i) ==
    /\ ops[i].resp.ok /\ ~ops[i].sawExpired
    /\ ops[i].calls > 0 /\ ops[i].res.err # "S3OperationError"

\* the set that wrote the object get i received
Writer(i) == ops[i].resp.obj.by

\* the expiry time of what set s wrote: its clock reading plus ttl seconds
ExpiryOf(s) == ops[s].at + ops[s].ttl.n * 1000

\* C1: a get that receives the object written by set(k, v, ttl), finds it
\* not expired and reads its body through, reports no error and the value v
\* that set was given.
C1_RoundTrip ==
    \A g \in Gets : ReadThrough(g) => ops[g].res = Res("null", 0, ops[Writer(g)].val)

C1_Witness ==
    \E g \in Gets :
        /\ ReadThrough(g)
        /\ ops[Writer(g)].calls = 1 /\ ops[Writer(g)].res.err = "null"
        /\ ops[g].at >= ops[Writer(g)].at
        /\ ops[g].res = Res("null", 0, JStr(<<"1">>))

\* C2: a get that receives an object whose stored expiry is smaller than the
\* clock at its TTL check never reports a value: when it calls back, it is
\* with (null, null).
C2_NoExpiredRead ==
    \A g \in Gets :
        (/\ Evaluated(g) /\ ops[g].calls > 0
         /\ ops[g].resp.obj.ttl # <<>>
         /\ ParseInt(ops[g].resp.obj.ttl).n < ops[g].evalAt)
        => ops[g].res = MissRes

C2_Witness ==
    \E g \in Gets :
        /\ Evaluated(g) /\ ops[g].calls = 1
        /\ ops[Writer(g)].ttl = JNum(1)
        /\ ops[g].evalAt > ExpiryOf(Writer(g))
        /\ ops[g].res = MissRes

\* C3: the object written by set(k, v, ttl) at time T with ttl > 0 carries
\* the expiry T + ttl*1000, and a get whose TTL check runs at or before that
\* time does not take it as expired: it reports v once the body is read.
C3_NoPrematureExpiry ==
    \A g \in Gets :
        (Evaluated(g) /\ ops[Writer(g)].ttl.n > 0) =>
            /\ ParseInt(ops[g].resp.obj.ttl) = [n |-> ExpiryOf(Writer(g)), nan |-> FALSE]
            /\ ops[g].evalAt <= ExpiryOf(Writer(g)) =>
                  /\ ~ops[g].sawExpired
                  /\ ReadThrough(g) => ops[g].res = Res("null", 0, ops[Writer(g)].val)

\* the TTL check ran exactly at the expiry time, and the value was reported
C3_Witness ==
    \E g \in Gets :
        /\ ReadThrough(g)
        /\ ops[Writer(g)].ttl.n > 0
        /\ ops[g].evalAt = ExpiryOf(Writer(g))
        /\ ops[g].res = Res("null", 0, ops[Writer(g)].val)

\* C4: set(k, v, -1) writes no expiry attribute, and a get that receives
\* the object it wrote reports v however far the clock has advanced.
C4_InfiniteTtl ==
    /\ \A s \in Ids : (ops[s].kind = "set" /\ ops[s].ttl = JNum(-1)) => ops[s].put.ttl = <<>>
    /\ \A k \in DOMAIN store : ops[store[k].by].ttl = JNum(-1) => store[k].ttl = <<>>
    /\ \A g \in Gets :
          (Evaluated(g) /\ ops[Writer(g)].ttl = JNum(-1)) =>
              /\ ~ops[g].sawExpired
              /\ ReadThrough(g) => ops[g].res = Res("null", 0, ops[Writer(g)].val)

\* more than a second after the set, the value is still reported
C4_Witness ==
    \E g \in Gets :
        /\ ReadThrough(g)
        /\ ops[Writer(g)].ttl = JNum(-1)
        /\ ops[g].evalAt > ops[Writer(g)].at + 1000
        /\ ops[g].res = Res("null", 0, ops[Writer(g)].val)

\* C5: a get that the store answers with a NoSuchKey error or a 404 status
\* (as it does for a key that was never written) reports (null, null).
C5_Miss ==
    \A g \in Gets :
        (/\ ops[g].calls > 0 /\ ~ops[g].resp.ok /\ ops[g].pend = NoRes
         /\ (ops[g].resp.err.name = "NoSuchKey" \/ ops[g].resp.err.status = 404))
        => ops[g].res = MissRes

\* no set was ever called, and the get reported a miss
C5_Witness ==
    \E g \in Gets :
        /\ \A i \in Ids : ops[i].kind # "set"
        /\ ops[g].resp.err = ErrNoSuchKey
        /\ ops[g].calls = 1 /\ ops[g].res = MissRes

\* C34: set overwrites fully: the object stored under a key is the one of
\* the set whose PutObject was executed last - the body is that call's
\* value, the expiry attribute is that call's clock reading plus its TTL,
\* and there is no expiry attribute when its TTL is -1, whatever the entry
\* overwritten had.
C34_Overwrite ==
    \A k \in DOMAIN store :
        LET w == store[k].by
        IN  /\ w \in Ids /\ ops[w].kind = "set" /\ ops[w].skey = k
            /\ store[k].body = Stringify(ops[w].val).text
            /\ store[k].ttl = IF ops[w].ttl.n = -1 THEN <<>> ELSE NumToString(ExpiryOf(w))
            /\ store[k].created = NumToString(ops[w].at)

\* set(k, v1, 1) wrote an entry, a get read it, and a set(k, v2, -1) that
\* has reported success has replaced it
C34_Witness ==
    \E g \in Gets : \E w \in Ids :
        /\ ops[g].resp.ok /\ Writer(g) # w /\ ops[Writer(g)].ttl = JNum(1)
        /\ ops[g].resp.obj.ttl # <<>>
        /\ ops[w].kind = "set" /\ ops[w].ttl = JNum(-1) /\ ops[w].val # ops[Writer(g)].val
        /\ ops[w].calls = 1 /\ ops[w].res = Res("null", 0, ops[w].val)
        /\ ops[w].skey \in DOMAIN store /\ store[ops[w].skey].by = w
        /\ ops[w].skey = ops[g].skey

----------------------------------------------------------------------------
\* The clear specification: the bucket holds up to MaxEntries entries that
\* earlier sets wrote, and one object outside the prefix; clear and get are
\* called, clears may overlap

ClearKeys ==
    <<<<"a">>, <<"a", "/", "b">>, <<"b", "#">>, <<"b">>, <<"q">>, <<"p">>, <<"a", "/", "a">>,
      <<"b", "/", "a">>>>

\* an object of another application, outside the prefix
ForeignKey == <<"q", ":", "a">>

\* the bucket after set(ClearKeys[j], 1, -1) for j up to n, called at time 0
StoreWith(n) ==
    [k \in {formatKey(ClearKeys[j]) : j \in 1..n} \cup {ForeignKey} |->
        PutObject(0, JNum(1), -1)]

InitClear ==
    /\ now = 0
    /\ config = validateAndProcessOptions(DefaultOptions)
    /\ ops = <<>>
    /\ \E n \in 0..MaxEntries : store = StoreWith(n)

NextClear ==
    \/ ClearCall(MaxClearCalls)
    \/ \E j \in 1..MaxEntries : GetCall(MaxClearCalls, JStr(ClearKeys[j]))
    \/ \E i \in Ids : StoreListObjects(i)
    \/ \E i \in Ids : ClearListReply(i)
    \/ \E i \in Ids : \E b \in DOMAIN ops[i].batches : StoreDeleteObjects(i, b)
    \/ \E i \in Ids : \E b \in DOMAIN ops[i].batches : ClearBatchReply(i, b)
    \/ \E i \in Ids : StoreGetObject(i)
    \/ \E i \in Ids : GetThen(i)
    \/ \E i \in Ids : GetStream(i)
    \/ \E i \in Ids : GetCatch(i)

SpecClear == InitClear /\ [][NextClear]_vars

----------------------------------------------------------------------------
\* Properties of clear (under SpecClear)

Clears == {i \in Ids : ops[i].kind = "clear"}

\* no step of clear c remains: the listing is over and the promise handler
\* of every batch has run
ClearQuiet(c) ==
    /\ ops[c].pc \notin {"req", "resp"}
    /\ \A b \in DOMAIN ops[c].batches : ops[c].batches[b].handled

FailedBatches(c) ==
    {b \in DOMAIN ops[c].batches : ops[c].batches[b].handled /\ ops[c].batches[b].out = "err"}

\* the failed batch of c whose handler ran first
FirstFailure(c) ==
    CHOOSE b \in FailedBatches(c) :
        \A x \in FailedBatches(c) : ops[c].batches[b].seq <= ops[c].batches[x].seq

\* C6: clear never invokes its callback twice, and once its listing is over
\* and every batch's handler has run it has invoked it exactly once -
\* whatever the batches' outcomes and order, also when clears overlap.
C6_ClearOnce ==
    \A c \in Clears : ops[c].calls <= 1 /\ (ClearQuiet(c) => ops[c].calls = 1)

\* two clears that both sent three batches; in one of them two batches
\* failed, in the other none
C6_Witness ==
    \E c \in Clears, d \in Clears :
        /\ ClearQuiet(c) /\ ClearQuiet(d)
        /\ Len(ops[c].batches) = 3 /\ Len(ops[d].batches) = 3
        /\ Cardinality(FailedBatches(c)) = 2 /\ FailedBatches(d) = {}
        /\ ops[c].calls = 1 /\ ops[d].calls = 1

\* C9: once a clear has reported success (nothing writes meanwhile), no key
\* under the prefix is left in the bucket, and a get called after that report
\* and answered by the store reports a miss.
C9_ClearComplete ==
    /\ (\E c \in Clears : ops[c].calls > 0 /\ ops[c].res.err = "null") =>
           \A k \in DOMAIN store : ~StartsWith(k, Prefix)
    /\ \A g \in Gets :
           (ops[g].okClears > 0 /\ ops[g].calls > 0 /\ ops[g].resp.err \notin Failures)
           => ops[g].res = MissRes

\* five entries, more than a page and more than a batch, were cleared, and a
\* get of one of them reported a miss
C9_Witness ==
    \E c \in Clears, g \in Gets :
        /\ Len(ops[c].objects) = 5 /\ Len(ops[c].objects) > PageSize
        /\ Len(ops[c].batches) > 1
        /\ ops[c].calls = 1 /\ ops[c].res.err = "null"
        /\ \E j \in DOMAIN ops[c].objects : ops[c].objects[j] = ops[g].skey
        /\ ops[g].okClears > 0 /\ ops[g].calls = 1 /\ ops[g].res = MissRes

\* C10: clear reports success only when every batch delete succeeded; once
\* the handler of a failed batch has run, clear has reported exactly once,
\* with the S3OperationError of the failure whose handler ran first.
C10_ClearFirstError ==
    \A c \in Clears :
        /\ (ops[c].calls > 0 /\ ops[c].res.err = "null") =>
               \A b \in DOMAIN ops[c].batches : ops[c].batches[b].out = "ok"
        /\ FailedBatches(c) # {} =>
               /\ ops[c].calls = 1
               /\ ops[c].res = ErrRes("S3OperationError",
                                      ops[c].batches[FirstFailure(c)].err.status)

\* a batch succeeded first, then two batches failed with different errors:
\* the first one's is the one reported
C10_Witness ==
    \E c \in Clears :
        /\ ClearQuiet(c) /\ Cardinality(FailedBatches(c)) = 2
        /\ \E b \in DOMAIN ops[c].batches :
              ops[c].batches[b].out = "ok" /\ ops[c].batches[b].seq = 1
        /\ \E b \in FailedBatches(c) :
              ops[c].batches[b].err.status # ops[c].batches[FirstFailure(c)].err.status
        /\ ops[c].calls = 1 /\ ops[c].res.err = "S3OperationError"

\* the keys of batch b of clear c
BatchKeys(c, b) == {ops[c].batches[b].keys[j] : j \in DOMAIN ops[c].batches[b].keys}

\* C11: clear is best-effort, not transactional.  Every batch's delete is
\* issued before any of them completes (as soon as one batch exists, the
\* batches together hold every collected key); a batch still in flight
\* stays executable by the store after clear has reported a failure; and
\* the keys of every batch whose delete succeeded are gone from the store,
\* whatever clear reported.
C11_ClearBestEffort ==
    \A c \in Clears :
        /\ ops[c].batches # <<>> =>
               UNION {BatchKeys(c, b) : b \in DOMAIN ops[c].batches}
                   = {ops[c].objects[j] : j \in DOMAIN ops[c].objects}
        /\ \A b \in DOMAIN ops[c].batches :
               /\ ops[c].batches[b].out = "" => ENABLED StoreDeleteObjects(c, b)
               /\ ops[c].batches[b].out = "ok" => BatchKeys(c, b) \cap DOMAIN store = {}

\* clear has reported the failure of one batch while a second was still in
\* flight; a third batch's delete succeeded, its handler ran after the one
\* that reported, and its keys are gone
C11_Witness ==
    \E c \in Clears :
        /\ ops[c].calls = 1 /\ ops[c].res.err = "S3OperationError"
        /\ \E b \in DOMAIN ops[c].batches : ops[c].batches[b].out = ""
        /\ \E b \in DOMAIN ops[c].batches :
              /\ ops[c].batches[b].out = "ok"
              /\ ops[c].batches[b].seq > ops[c].batches[FirstFailure(c)].seq
              /\ BatchKeys(c, b) \cap DOMAIN store = {}

\* C12: clear never deletes an object whose storage key does not begin with
\* the configured prefix: no step of any interleaving of clears (and gets)
\* removes or changes an object outside the prefix.
C12_ClearFrame ==
    [][\A k \in DOMAIN store :
          ~StartsWith(k, Prefix) => (k \in DOMAIN store' /\ store'[k] = store[k])]_vars

\* a clear has deleted several batches of entries and reported success, and
\* the object outside the prefix is still in the bucket
C12_Witness ==
    \E c \in Clears :
        /\ ops[c].calls = 1 /\ ops[c].res.err = "null" /\ Len(ops[c].batches) > 1
        /\ ForeignKey \in DOMAIN store /\ ~StartsWith(ForeignKey, Prefix)
        /\ \A k \in DOMAIN store : k = ForeignKey

\* the keys of the batches of clear c, in the order of the batches
RECURSIVE BatchConcat(_, _)
BatchConcat(c, b) ==
    IF b > Len(ops[c].batches) THEN <<>>
    ELSE ops[c].batches[b].keys \o BatchConcat(c, b + 1)

\* clear c has its listing complete
Listed(c) == ops[c].resp.ok /\ ~ops[c].page.truncated /\ ops[c].pc \in {"deleting", "done"}

\* C33: once clear has collected n keys, its batches hold these keys in
\* order, each key in one batch, every batch has between 1 and BatchLimit
\* keys, and there are ceil(n / BatchLimit) batches, one DeleteObjects
\* request each; with n = 0 there is no batch and clear has reported success
\* in the step that handled the last listing page.
C33_Batches ==
    \A c \in Clears :
        Listed(c) =>
            LET n == Len(ops[c].objects)
                m == Len(ops[c].batches)
            IN  /\ BatchConcat(c, 1) = ops[c].objects
                /\ \A b \in 1..m : Len(ops[c].batches[b].keys) \in 1..BatchLimit
                /\ m * BatchLimit >= n /\ (m > 0 => (m - 1) * BatchLimit < n)
                /\ n = 0 => /\ m = 0 /\ ops[c].pc = "done"
                            /\ ops[c].calls = 1 /\ ops[c].res = Res("null", 0, JUndef)

\* five keys were collected and deleted in three requests, of 2, 2 and 1 keys
C33_Witness ==
    \E c \in Clears :
        /\ Listed(c) /\ Len(ops[c].objects) = 5 /\ Len(ops[c].batches) = 3
        /\ Len(ops[c].batches[1].keys) = 2 /\ Len(ops[c].batches[3].keys) = 1
        /\ \A b \in 1..3 : ops[c].batches[b].out = "ok"
        /\ ops[c].calls = 1

----------------------------------------------------------------------------
\* The scan specification: the bucket holds up to MaxScanEntries entries
\* that earlier sets wrote at time 0 (one with a TTL of a second); scan is
\* called and the clock advances

ScanEntries ==
    <<[key |-> <<"a">>, ttl |-> 1, val |-> JNum(1)],
      [key |-> <<"a", "/", "b">>, ttl |-> -1, val |-> JStr(<<"1">>)],
      [key |-> <<"?">>, ttl |-> -1, val |-> JNum(1)],
      [key |-> <<"b">>, ttl |-> -1, val |-> JNull],
      [key |-> <<"q">>, ttl |-> 1, val |-> JNum(1)]>>

ScanStoreWith(n) ==
    [k \in {formatKey(ScanEntries[j].key) : j \in 1..n} |->
        LET j == CHOOSE x \in 1..n : formatKey(ScanEntries[x].key) = k
        IN  PutObject(0, ScanEntries[j].val, ScanEntries[j].ttl)]

ScanPatterns == {<<>>, <<"a">>}
ScanLimits == {2, 100}

InitScan ==
    /\ now = 0
    /\ config = validateAndProcessOptions(DefaultOptions)
    /\ ops = <<>>
    /\ \E n \in 0..MaxScanEntries : store = ScanStoreWith(n)

NextScan ==
    \/ \E p \in ScanPatterns, l \in ScanLimits : ScanCall(MaxScanCalls, p, l)
    \/ \E i \in Ids : StoreListObjects(i)
    \/ \E i \in Ids : StoreListNoToken(i)
    \/ \E i \in Ids : ScanThen(i)
    \/ \E i \in Ids : ScanCatch(i)
    \/ \E i \in Ids : NextTick(i)
    \/ \E i \in Ids : StoreGetObject(i)
    \/ \E i \in Ids : GetThen(i)
    \/ \E i \in Ids : GetStream(i)
    \/ \E i \in Ids : GetCatch(i)
    \/ \E i \in Ids : StoreDeleteObject(i)
    \/ \E i \in Ids : DelReply(i)
    \/ Tick

SpecScan == InitScan /\ [][NextScan]_vars

----------------------------------------------------------------------------
\* Claims checked under SpecScan

Scans == {i \in Ids : ops[i].kind = "scan"}

\* the lookups scan s has issued
Lookups(s) == {g \in Ids : ops[g].kind = "get" /\ ops[g].cb = ScanCb(s)}

\* nothing of scan s is in flight: its listing has been handled and every
\* lookup it issued has called back
ScanQuiet(s) ==
    /\ ops[s].pc \notin {"req", "resp"}
    /\ \A g \in Lookups(s) : ops[g].calls >= 1

\* C7: scan calls its callback exactly once, and only after the lookup of
\* every listed key has completed, whatever the order in which the lookups
\* complete and whether they hit, miss, find an expired entry or fail: the
\* callback is never called twice; when it has been called for a listing
\* that succeeded, one lookup per listed key was issued and each has called
\* back exactly once; and once nothing of the scan is in flight the callback
\* has been called
C7_ScanOnce ==
    \A s \in Scans :
        /\ ops[s].calls <= 1
        /\ (ops[s].calls = 1 /\ ops[s].resp.ok) =>
              /\ Cardinality(Lookups(s)) = Len(ops[s].page.keys)
              /\ \A g \in Lookups(s) : ops[g].calls = 1
              /\ ops[s].processed = Len(ops[s].page.keys)
        /\ ScanQuiet(s) => ops[s].calls = 1

\* a scan has called back over three lookups, of which one hit, one found an
\* expired entry and one failed
C7_Witness ==
    \E s \in Scans :
        /\ ops[s].calls = 1 /\ Len(ops[s].page.keys) = 3
        /\ Len(ops[s].entries) = 1
        /\ \E g, h, f \in Lookups(s) :
              /\ ops[g].res.err = "null" /\ ops[g].res.val # JNull /\ ~ops[g].sawExpired
              /\ ops[h].sawExpired /\ ops[h].res = MissRes
              /\ ops[f].res.err # "null"

\* the lookups of scan s whose entry scan has to leave out: they reported
\* an error, or no value (a miss, an expired entry, a stored null)
Excluded(s) == {g \in Lookups(s) : ops[g].calls > 0 /\ (ops[g].res.err # "null"
                                                         \/ ~isDefined(ops[g].res.val))}

C24_Cursor ==
    \A s \in Scans :
        (ops[s].calls > 0 /\ ops[s].resp.ok) =>
            /\ (ops[s].cursor = JNum(0)) <=> ~ops[s].page.truncated
            /\ ops[s].page.truncated =>
                  /\ ops[s].cursor = (IF ops[s].page.token # <<>>
                                      THEN JStr(ops[s].page.token) ELSE JNum(1))
                  /\ ops[s].cursor \notin {JNum(0), JStr(<<>>), JUndef, JNull}

\* a scan with limit 2 over three entries has reported the sentinel 1: the
\* store had marked the page truncated without a token
C24_Witness ==
    \E s \in Scans :
        /\ ops[s].calls = 1 /\ ops[s].resp.ok /\ ops[s].maxKeys = 2
        /\ ops[s].page.truncated /\ ops[s].page.token = <<>>
        /\ Len(ops[s].page.keys) = 2 /\ ops[s].cursor = JNum(1)

\* scan s listed the storage key k
InPage(s, k) == \E x \in DOMAIN ops[s].page.keys : ops[s].page.keys[x] = k

\* C40: when scan has reported success and the store failed none of its
\* lookups, every entry without expiry that set has stored and whose storage
\* key is in the listing page has an entry with its value in scan's result -
\* also an entry whose value is null and one whose key sanitizes to the
\* empty string.
C40_ScanComplete ==
    \A s \in Scans :
        (/\ ops[s].calls > 0 /\ ops[s].res.err = "null"
         /\ \A g \in Lookups(s) : /\ ops[g].resp.err \notin Failures
                                  /\ ops[g].res.err # "S3OperationError")
        => \A j \in 1..MaxScanEntries :
              (ScanEntries[j].ttl = -1 /\ InPage(s, formatKey(ScanEntries[j].key)))
              => \E e \in DOMAIN ops[s].entries :
                    /\ ops[s].entries[e].data = ScanEntries[j].val
                    /\ formatKey(ops[s].entries[e].key.s) = formatKey(ScanEntries[j].key)

----------------------------------------------------------------------------
\* The fair specification: get, set, del and healthCheck are called with
\* valid and invalid arguments; every storage request is eventually answered
\* and every queued handler (promise reaction, nextTick callback) is
\* eventually run, as the event loop does.  The bucket starts empty or with
\* one entry written at time 0 with a TTL of a second.

LiveKeys == {<<"a">>, <<>>}
LiveValues == {JNum(1), JUndef, JCyclic}
LiveTtls == {JNum(1), JNum(0)}

\* a call starts at most one further operation (the lazy deletion of get)
LiveIds == 1..(MaxLiveCalls + MaxLiveCalls)

InitLive ==
    /\ now = 0
    /\ config = validateAndProcessOptions(DefaultOptions)
    /\ ops = <<>>
    /\ \E n \in 0..1 : store = ScanStoreWith(n)

LiveProgress(i) ==
    \/ Progress(i)
    \/ StoreHeadBucket(i)
    \/ HealthReply(i)

NextLive ==
    \/ \E k \in LiveKeys : GetCall(MaxLiveCalls, JStr(k))
    \/ \E k \in LiveKeys, v \in LiveValues, t \in LiveTtls : SetCall(MaxLiveCalls, JStr(k), v, t)
    \/ \E k \in LiveKeys : DelCall(MaxLiveCalls, JStr(k))
    \/ HealthCall(MaxLiveCalls)
    \/ \E i \in Ids : LiveProgress(i)
    \/ Tick

Fairness == \A i \in LiveIds : WF_vars(i \in Ids /\ LiveProgress(i))

SpecLive == InitLive /\ [][NextLive]_vars /\ Fairness

----------------------------------------------------------------------------
\* Claims checked under SpecLive

\* C8: given that every storage request is eventually answered, each get,
\* set, del and healthCheck eventually calls its callback, and calls it
\* exactly once, whatever the outcome (hit, miss, expired entry, validation
\* error, storage failure): no callback is ever called twice, and every
\* operation that has been started leads to its callback having been called
C8_CallbackOnce ==
    /\ [](\A i \in Ids : ops[i].calls <= 1)
    /\ \A i \in LiveIds : (i \in Ids) ~> (i \in Ids /\ ops[i].calls = 1)

\* a get that found an expired entry has called back after its lazy
\* deletion failed in the store, and a call with invalid arguments has
\* called back with its validation error
C8_Witness ==
    \E g, v \in Ids :
        /\ ops[g].kind = "get" /\ ops[g].cb = UserCb /\ ops[g].sawExpired /\ ops[g].calls = 1
        /\ \E d \in Ids : ops[d].cb = LazyCb(g) /\ ~ops[d].resp.ok /\ ops[d].calls = 1
        /\ ops[v].cb = UserCb /\ ops[v].calls = 1
        /\ ops[v].res.err \in {"ConfigurationError", "TTLError", "SerializationError"}

\* the deletes that get g issued for its lazy cleanup
LazyDels(g) == {d \in Ids : ops[d].kind = "del" /\ ops[d].cb = LazyCb(g)}

\* C26: a get that reads an expired entry issues exactly one delete, for
\* the key it read (a get that does not, issues none); once that delete has
\* called back, whether the store executed it or failed it, the get has
\* reported a miss (null, null); the get never reports before, and never
\* reports the delete's outcome.
C26_LazyExpiry ==
    \A g \in Gets :
        /\ ~ops[g].sawExpired => LazyDels(g) = {}
        /\ ops[g].sawExpired =>
              /\ Cardinality(LazyDels(g)) = 1
              /\ \A d \in LazyDels(g) :
                    /\ ops[d].key = ops[g].key /\ ops[d].skey = ops[g].skey
                    /\ ops[d].calls <= 1
                    /\ ops[g].calls = ops[d].calls
                    /\ ops[g].calls > 0 => ops[g].res = MissRes

\* a get has reported a miss for an expired entry although the store failed
\* the delete, so that the entry is still in the bucket
C26_Witness ==
    \E g \in Gets :
        /\ ops[g].sawExpired /\ ops[g].calls = 1 /\ ops[g].res = MissRes
        /\ ops[g].skey \in DOMAIN store /\ isExpired(store[ops[g].skey].ttl)
        /\ \E d \in LazyDels(g) :
              ops[d].resp.err \in Failures /\ ops[d].res.err = "S3OperationError"

\* C27: there is no background sweeper.  A step in which the clock advances
\* leaves the store as it is, and an object is removed or replaced only by
\* the store executing the request of a set or of a del for its key, the
\* del being one the user called or the cleanup of a get that read the
\* entry expired: until then an expired entry stays in the bucket.
C27_NoSweeper ==
    [][/\ now' # now => store' = store
       /\ \A k \in DOMAIN store :
             (k \notin DOMAIN store' \/ store'[k] # store[k]) =>
                 \E i \in Ids :
                    /\ ops[i].pc = "req" /\ ops'[i].pc = "resp" /\ ops[i].skey = k
                    /\ \/ ops[i].kind = "set"
                       \/ ops[i].kind = "del" /\ ops[i].cb = UserCb
                       \/ /\ ops[i].kind = "del" /\ ops[i].cb.t = "lazy"
                          /\ ops[ops[i].cb.parent].sawExpired]_vars

\* the entry's expiry has passed, a healthCheck called after that has
\* reported, and the entry is still in the bucket
C27_Witness ==
    \E k \in DOMAIN store, h \in Ids :
        /\ isExpired(store[k].ttl)
        /\ ops[h].kind = "health" /\ ops[h].calls = 1
        /\ ops[h].at > ParseInt(store[k].ttl).n

----------------------------------------------------------------------------
\* The argument specification: get, set and del are called with valid and
\* invalid keys, values and TTLs on an empty bucket, at one clock value

ArgKeys == {JStr(<<"a">>), JStr(<<>>), JNum(5), JUndef}
ArgValues == {JNum(1), JUndef, JCyclic}
ArgTtls == {JUndef, JNum(1), JNum(-1), JNum(0), JNum(-2), JNaN, JStr(<<"5">>), JNull}

NextArgs ==
    \/ \E k \in ArgKeys : GetCall(MaxArgCalls, k)
    \/ \E k \in ArgKeys, v \in ArgValues, t \in ArgTtls : SetCall(MaxArgCalls, k, v, t)
    \/ \E k \in ArgKeys : DelCall(MaxArgCalls, k)
    \/ \E i \in Ids : Progress(i)

SpecArgs == Init /\ [][NextArgs]_vars

----------------------------------------------------------------------------
\* Claims checked under SpecArgs

Sets == {i \in Ids : ops[i].kind = "set"}

\* operation i has sent no request to the store and has written nothing
NoRequest(i) ==
    /\ ops[i].pc \in {"tick", "done"}
    /\ ops[i].skey = <<>> /\ ops[i].resp = NoResp /\ ops[i].put = NoObj
    /\ \A k \in DOMAIN store : store[k].by # i

\* a TTL argument that is given and is neither -1 nor a positive number
BadTtl(t) == t.t \notin {"undefined", "function"} /\ ~(t.t = "number" /\ (t.n = -1 \/ t.n > 0))

\* C13: a set whose TTL argument is neither -1 nor a positive number (0, a
\* negative number other than -1, NaN, a non-number) sends no storage
\* request, leaves the store as it is, and the error it reports is a
\* TTLError.
C13_InvalidTtl ==
    \A i \in Sets :
        BadTtl(ops[i].ttl) =>
            /\ NoRequest(i)
            /\ ops[i].calls > 0 => ops[i].res = ErrRes("TTLError", 0)

\* sets with TTL 0 and with TTL NaN have both reported
C13_Witness ==
    \E i, j \in Sets :
        /\ ops[i].ttl = JNum(0) /\ ops[j].ttl = JNaN
        /\ isValidCacheKey(ops[i].key) /\ ops[i].val = JNum(1)
        /\ ops[i].calls = 1 /\ ops[j].calls = 1
        /\ ops[i].res.err = "TTLError" /\ ops[j].res.err = "TTLError"

\* a key argument that is a non-empty string
GoodKey(k) == k.t = "string" /\ k.s # <<>>

\* C14 as stated: every set whose value is undefined or cannot be
\* serialized sends no storage request, leaves the store as it is and
\* reports a SerializationError
C14_Original ==
    \A i \in Sets :
        ops[i].val.t \in {"undefined", "cyclic"} =>
            /\ NoRequest(i)
            /\ ops[i].calls > 0 => ops[i].res = ErrRes("SerializationError", 0)

\* C14 (amended): a set whose value is undefined or cannot be serialized
\* sends no storage request and leaves the store as it is; it reports a
\* SerializationError when the value is undefined and the TTL argument is
\* absent or valid, and when the value cannot be serialized, the TTL
\* argument is absent or valid and the key is a non-empty string.
C14_Unserializable ==
    \A i \in Sets :
        /\ ops[i].val.t \in {"undefined", "cyclic"} => NoRequest(i)
        /\ (ops[i].val.t = "undefined" /\ ~BadTtl(ops[i].ttl) /\ ops[i].calls > 0)
               => ops[i].res = ErrRes("SerializationError", 0)
        /\ (ops[i].val.t = "cyclic" /\ ~BadTtl(ops[i].ttl) /\ GoodKey(ops[i].key)
              /\ ops[i].calls > 0)
               => ops[i].res = ErrRes("SerializationError", 0)

\* a set of undefined (with an empty key) and a set of a cyclic structure
\* have both reported a SerializationError
C14_Witness ==
    \E i, j \in Sets :
        /\ ops[i].val = JUndef /\ ops[i].key = JStr(<<>>) /\ ops[i].ttl = JUndef
        /\ ops[j].val = JCyclic /\ ops[j].key = JStr(<<"a">>) /\ ops[j].ttl = JNum(1)
        /\ ops[i].calls = 1 /\ ops[j].calls = 1
        /\ ops[i].res.err = "SerializationError" /\ ops[j].res.err = "SerializationError"
        /\ NoRequest(i) /\ NoRequest(j)

\* the get, set and del operations
KeyOps == {i \in Ids : ops[i].kind \in {"get", "set", "del"}}

\* C15 as stated: every get, set and del whose key is empty or not a string
\* sends no storage request, leaves the store as it is and reports a
\* ConfigurationError
C15_Original ==
    \A i \in KeyOps :
        ~GoodKey(ops[i].key) =>
            /\ NoRequest(i)
            /\ ops[i].calls > 0 => ops[i].res = ErrRes("ConfigurationError", 0)

\* C15 (amended): a get, set or del whose key is empty or not a string
\* sends no storage request and leaves the store as it is; get and del
\* report a ConfigurationError, and so does set when its TTL argument is
\* absent or valid and its value is not undefined.
C15_InvalidKey ==
    \A i \in KeyOps :
        ~GoodKey(ops[i].key) =>
            /\ NoRequest(i)
            /\ (/\ ops[i].calls > 0
                /\ ops[i].kind = "set" => (~BadTtl(ops[i].ttl) /\ ops[i].val.t # "undefined"))
                   => ops[i].res = ErrRes("ConfigurationError", 0)

\* a get with a key that is not a string and a set with an empty key (and a
\* value that cannot be serialized) have both reported a ConfigurationError
C15_Witness ==
    \E i, j \in KeyOps :
        /\ ops[i].kind = "get" /\ ops[i].key = JNum(5)
        /\ ops[j].kind = "set" /\ ops[j].key = JStr(<<>>) /\ ops[j].val = JCyclic
        /\ ops[i].calls = 1 /\ ops[j].calls = 1
        /\ ops[i].res.err = "ConfigurationError" /\ ops[j].res.err = "ConfigurationError"
        /\ NoRequest(i) /\ NoRequest(j)

\* the sets that have called back
SetsDone == {i \in Sets : ops[i].calls > 0}

\* C16 as stated: set tests (a) the value against undefined, (b) the TTL,
\* (c) the key, and reports the error of the first test that fails
C16_Original ==
    \A i \in SetsDone :
        IF ops[i].val.t = "undefined" THEN ops[i].res = ErrRes("SerializationError", 0)
        ELSE IF BadTtl(ops[i].ttl) THEN ops[i].res = ErrRes("TTLError", 0)
        ELSE ~GoodKey(ops[i].key) => ops[i].res = ErrRes("ConfigurationError", 0)

\* C16 (amended): set tests (a) the TTL, (b) the value against undefined,
\* (c) the key, and reports the error of the first test that fails:
\* TTLError, SerializationError, ConfigurationError in this order.
C16_ValidationOrder ==
    \A i \in SetsDone :
        IF BadTtl(ops[i].ttl) THEN ops[i].res = ErrRes("TTLError", 0)
        ELSE IF ops[i].val.t = "undefined" THEN ops[i].res = ErrRes("SerializationError", 0)
        ELSE ~GoodKey(ops[i].key) => ops[i].res = ErrRes("ConfigurationError", 0)

\* set('', undefined, 0) has reported a TTLError and set('', undefined) a
\* SerializationError
C16_Witness ==
    \E i, j \in SetsDone :
        /\ ops[i].key = JStr(<<>>) /\ ops[i].val = JUndef /\ ops[i].ttl = JNum(0)
        /\ ops[j].key = JStr(<<>>) /\ ops[j].val = JUndef /\ ops[j].ttl = JUndef
        /\ ops[i].res.err = "TTLError" /\ ops[j].res.err = "SerializationError"

----------------------------------------------------------------------------
\* The sequential specification: a caller that makes each call of get, set
\* and del from the callback of the one before, on a bucket that holds an
\* object outside the prefix and possibly the entry of key "a"

SeqKeys == {<<"a">>, <<"b">>}

\* every operation started so far has called back
Idle == \A i \in Ids : ops[i].pc = "done"

InitSeq ==
    /\ now = 0
    /\ config = validateAndProcessOptions(DefaultOptions)
    /\ ops = <<>>
    /\ \E n \in 0..1 : store = StoreWith(n)

NextSeq ==
    \/ \E k \in SeqKeys : Idle /\ GetCall(MaxSeqCalls, JStr(k))
    \/ \E k \in SeqKeys : Idle /\ SetCall(MaxSeqCalls, JStr(k), JNum(1), JNum(-1))
    \/ \E k \in SeqKeys : Idle /\ DelCall(MaxSeqCalls, JStr(k))
    \/ \E i \in Ids : Progress(i)

SpecSeq == InitSeq /\ [][NextSeq]_vars

----------------------------------------------------------------------------
\* Claims checked under SpecSeq

Dels == {i \in Ids : ops[i].kind = "del"}

\* a del of the key of operation i, called before i, whose delete the store
\* executed, with no set of that key called in between
DeletedBefore(i) ==
    \E d \in Dels :
        /\ d < i /\ ops[d].key = ops[i].key /\ ops[d].resp.ok
        /\ \A s \in Sets : ~(d < s /\ s < i /\ ops[s].key = ops[i].key)

\* C17: del is idempotent.  A del whose storage request did not fail
\* reports success, whether or not the key existed; after such a del, with
\* no later set of the key, a get that the store answers is a miss, and the
\* storage request of a second del leaves the store as it is (and the
\* second del reports success as well).
C17_DelIdempotent ==
    /\ [](\A d \in Dels :
            (ops[d].calls > 0 /\ ops[d].resp.ok) => ops[d].res = Res("null", 0, JUndef))
    /\ [](\A g \in Gets :
            (DeletedBefore(g) /\ ops[g].calls > 0 /\ ops[g].resp.err \notin Failures)
                => ops[g].res = MissRes)
    /\ [][\A d \in Dels :
            (DeletedBefore(d) /\ ops[d].pc = "req" /\ ops'[d].pc = "resp" /\ ops'[d].resp.ok)
                => store' = store]_vars

\* the entry of "a" was deleted, a get of "a" then missed, and a second del
\* of "a" reported success; the object outside the prefix is still there
C17_Witness ==
    \E d, g, e \in Ids :
        /\ d < g /\ g < e
        /\ ops[d].kind = "del" /\ ops[g].kind = "get" /\ ops[e].kind = "del"
        /\ ops[d].key = JStr(<<"a">>) /\ ops[g].key = ops[d].key /\ ops[e].key = ops[d].key
        /\ formatKey(<<"a">>) \in DOMAIN StoreWith(1)
        /\ ops[d].resp.ok /\ ops[d].res = Res("null", 0, JUndef)
        /\ DeletedBefore(g) /\ ops[g].res = MissRes /\ ops[g].calls = 1
        /\ DeletedBefore(e) /\ ops[e].calls = 1 /\ ops[e].res = Res("null", 0, JUndef)
        /\ DOMAIN store = {ForeignKey}

\* a not-found signal of the store: the NoSuchKey error name or status 404
NotFoundSignal(e) == e.name = "NoSuchKey" \/ e.status = 404

\* C18: del reports an S3OperationError only for storage failures other
\* than not-found: a del that has reported one had its storage request fail
\* with an error that is no not-found signal.
C18_DelNotFound ==
    \A d \in Dels :
        (ops[d].calls > 0 /\ ops[d].res.err = "S3OperationError")
            => (~ops[d].resp.ok /\ ~NotFoundSignal(ops[d].resp.err))

\* C19: a get whose storage request failed with an error that is no
\* not-found signal reports an S3OperationError that carries the error's
\* status code, and no value: never a miss, never a value.
C19_GetFailure ==
    \A g \in Gets :
        (ops[g].calls > 0 /\ ops[g].resp # NoResp /\ ~ops[g].resp.ok
           /\ ~NotFoundSignal(ops[g].resp.err))
            => ops[g].res = Res("S3OperationError", ops[g].resp.err.status, JUndef)

\* a get of an entry that is in the store has reported the store's internal
\* error, with its status 500
C19_Witness ==
    \E g \in Gets :
        /\ ops[g].resp = ErrResp(ErrInternal) /\ ops[g].skey \in DOMAIN store
        /\ ops[g].calls = 1 /\ ops[g].res = Res("S3OperationError", 500, JUndef)

\* C20: a get against a bucket that does not exist reports an error and no
\* data; it is not reported as a miss.
C20_NoBucket ==
    \A g \in Gets :
        (ops[g].calls > 0 /\ ops[g].resp = ErrResp(ErrNoSuchBucket))
            => (ops[g].res.err \notin {"", "null"} /\ ops[g].res.val = JUndef)

----------------------------------------------------------------------------
\* The write-then-scan specification: a caller that makes each call from the
\* callback of the one before writes entries with set and scans the prefix,
\* on a bucket that holds one object outside the prefix

WriteKeys == {<<"a">>, <<"a", "/", "b">>, <<"a", ":", "1">>, <<"b", "/", ":">>}
WriteValues == {JNum(1), JStr(<<"1">>)}

\* scan's limit argument
WriteLimit == 10

InitWrite ==
    /\ now = 0
    /\ config = validateAndProcessOptions(DefaultOptions)
    /\ ops = <<>>
    /\ store = StoreWith(0)

NextWrite ==
    \/ \E k \in WriteKeys, v \in WriteValues :
          Idle /\ SetCall(MaxWriteCalls, JStr(k), v, JNum(-1))
    \/ Idle /\ ScanCall(MaxWriteCalls, <<>>, WriteLimit)
    \/ \E i \in Ids : Progress(i)
    \/ \E i \in Ids : StoreListObjects(i)
    \/ \E i \in Ids : ScanThen(i)
    \/ \E i \in Ids : ScanCatch(i)

SpecWrite == InitWrite /\ [][NextWrite]_vars

----------------------------------------------------------------------------
\* Claims checked under SpecWrite

\* the sets called before operation s that reported success
Writes(s) == {w \in Sets : w < s /\ ops[w].calls > 0 /\ ops[w].res.err = "null"}

\* the latest of them for its key
LastWrites(s) ==
    {w \in Writes(s) : \A x \in Writes(s) : ops[x].key = ops[w].key => x <= w}

\* no request of the behaviour so far was failed by the store, and no body
\* stream broke
NoFailure ==
    \A i \in Ids : ops[i].resp.err \notin Failures /\ ops[i].res.err # "S3OperationError"

\* C21: once entries have been written under the prefix (no more of them
\* than a listing page holds, no storage failure), a scan with an empty
\* pattern and a limit of at least their number reports no error, cursor 0,
\* and exactly one entry per written entry, with the logical key that was
\* written and the value that was written last.
C21_ScanCorrect ==
    \A s \in Scans :
        (/\ ops[s].calls > 0 /\ ops[s].key = JStr(<<>>) /\ NoFailure
         /\ Cardinality(LastWrites(s)) <= PageSize
         /\ Cardinality(LastWrites(s)) <= ops[s].maxKeys)
        => /\ ops[s].res.err = "null"
           /\ ops[s].cursor = JNum(0)
           /\ Len(ops[s].entries) = Cardinality(LastWrites(s))
           /\ \A w \in LastWrites(s) :
                 \E j \in DOMAIN ops[s].entries :
                    ops[s].entries[j] = [key |-> ops[w].key, data |-> ops[w].val]

\* the places of the separator '/' in a text
Slashes(k) == {j \in DOMAIN k : k[j] = "/"}

\* the escape of '/' occurs in a text
HasEscapedSlash(k) ==
    \E j \in DOMAIN k : j + 2 <= Len(k) /\ SubSeq(k, j, j + 2) = PctCode("/")

\* C22: for a set of a logical key that contains '/' separators, the
\* storage key holds as many literal '/' after the prefix and no escaped
\* one; decoding the storage key as scan does (strip the prefix,
\* percent-decode) yields the logical key exactly; re-encoding the decoded
\* key yields the same storage key; and a scan of the prefix that lists the
\* entry (no storage failure) returns it under the logical key.
C22_Hierarchy ==
    \A w \in Sets :
        (ops[w].skey # <<>> /\ Slashes(ops[w].key.s) # {}) =>
            /\ Cardinality(Slashes(Drop(ops[w].skey, Len(Prefix))))
                   = Cardinality(Slashes(ops[w].key.s))
            /\ ~HasEscapedSlash(ops[w].skey)
            /\ OriginalKey(ops[w].skey) = [s |-> ops[w].key.s, ok |-> TRUE]
            /\ formatKey(OriginalKey(ops[w].skey).s) = ops[w].skey
            /\ \A s \in Scans :
                  (/\ w \in LastWrites(s) /\ ops[s].calls > 0 /\ NoFailure
                   /\ \E j \in DOMAIN ops[s].page.keys : ops[s].page.keys[j] = ops[w].skey)
                  => \E j \in DOMAIN ops[s].entries :
                        ops[s].entries[j] = [key |-> ops[w].key, data |-> ops[w].val]

----------------------------------------------------------------------------
\* The configuration specification: an instance constructed with one of
\* several option sets (those the constructor rejects make no instance);
\* healthCheck is called, and set with and without a TTL, while the clock
\* may advance during a call

OptionChoices ==
    {Options(b, r, d) : b \in {JStr(<<"b">>), JStr(<<>>)},
                        r \in {JUndef, JStr(<<"e", "u">>)},
                        d \in {JUndef, JNum(-1), JNum(1), JNum(0)}}

ConfigTtls == {JUndef, JFunc, JNum(60), JNum(-1), JNum(1), JNum(0)}

InitConfig ==
    /\ now = 0
    /\ ops = <<>>
    /\ store = <<>>
    /\ \E o \in OptionChoices : ValidOptions(o) /\ config = validateAndProcessOptions(o)

NextConfig ==
    \/ HealthCall(MaxConfigCalls)
    \/ \E t \in ConfigTtls : SetCallLate(MaxConfigCalls, JStr(<<"a">>), JNum(1), t)
    \/ \E i \in Ids : NextTick(i)
    \/ \E i \in Ids : StorePutObject(i)
    \/ \E i \in Ids : SetReply(i)
    \/ \E i \in Ids : StoreHeadBucket(i)
    \/ \E i \in Ids : HealthReply(i)

SpecConfig == InitConfig /\ [][NextConfig]_vars

----------------------------------------------------------------------------
\* Claims checked under SpecConfig

Healths == {i \in Ids : ops[i].kind = "health"}

\* C25: healthCheck never passes an error to its callback.  A successful
\* bucket probe yields status 'healthy'; every failed probe (not found, a
\* server error, the network, a rejection without a message) yields status
\* 'unhealthy' with an error message that is a non-empty text; either way
\* the error argument is null and the result names the configured bucket
\* and region.
C25_HealthNoError ==
    \A h \in Healths :
        ops[h].calls > 0 =>
            /\ ops[h].res.err = "null" /\ ops[h].res.status = 0
            /\ ops[h].res.val.bucket = config.bucket
            /\ ops[h].res.val.region = config.region
            /\ ops[h].resp.ok =>
                  (ops[h].res.val.status = "healthy" /\ ops[h].res.val.error = JUndef)
            /\ ~ops[h].resp.ok =>
                  /\ ops[h].res.val.status = "unhealthy"
                  /\ TypeOf(ops[h].res.val.error) = "string"
                  /\ ops[h].res.val.error.s # <<>>

\* on an instance configured with a region, one healthCheck reported
\* 'healthy' and another, whose probe was rejected without a message,
\* 'unhealthy' with the text 'Unknown error'
C25_Witness ==
    \E h, u \in Healths :
        /\ config.region = <<"e", "u">>
        /\ ops[h].calls = 1 /\ ops[h].resp.ok /\ ops[h].res.val.status = "healthy"
        /\ ops[u].calls = 1 /\ ops[u].resp = ErrResp(ErrOpaque)
        /\ ops[u].res.err = "null" /\ ops[u].res.val.status = "unhealthy"
        /\ ops[u].res.val.error = JStr(UnknownError)
        /\ ops[u].res.val.region = <<"e", "u">>

\* the sets whose PutObject request was made
SentSets == {i \in Sets : ops[i].skey # <<>>}

\* C29: every object that set sends with a finite TTL carries an expiry
\* attribute strictly greater than its created attribute, also when the
\* clock advances between set's two clock readings.
C29_ExpiryAfterCreated ==
    \A i \in SentSets :
        ops[i].put.ttl # <<>> =>
            ParseInt(ops[i].put.ttl).n > ParseInt(ops[i].put.created).n

\* the default TTL that the options ask for
ConfiguredTtl(o) == IF o.defaultTtl = JUndef THEN 60 ELSE o.defaultTtl.n

\* set i and set j were called with the same key and value at the same
\* clock readings
SameCall(i, j) ==
    /\ ops[i].key = ops[j].key /\ ops[i].val = ops[j].val
    /\ ops[i].at = ops[j].at /\ ops[i].put.created = ops[j].put.created

\* C30: a set called without a TTL (the argument undefined, or the callback
\* in its place) behaves as a set with ttl = defaultTtl does: the default
\* is the configured one, 60 when none is configured; the set is not
\* rejected, the object it sends expires defaultTtl seconds after the call,
\* or carries no expiry when defaultTtl = -1, and it is the object that the
\* same call with ttl = defaultTtl sends; both report the same for the same
\* answer of the store.
C30_DefaultTtl ==
    /\ \E o \in OptionChoices :
          /\ ValidOptions(o)
          /\ config.defaultTtl = ConfiguredTtl(o)
    /\ \A i \in Sets :
          NoTtl(ops[i].ttl) =>
              /\ i \in SentSets /\ ops[i].pend = NoRes
              /\ ops[i].put.ttl = (IF config.defaultTtl = -1 THEN <<>>
                                   ELSE NumToString(ops[i].at + config.defaultTtl * 1000))
              /\ \A j \in Sets :
                    (ops[j].ttl = JNum(config.defaultTtl) /\ SameCall(i, j)) =>
                        /\ ops[j].skey = ops[i].skey
                        /\ ops[j].put = [ops[i].put EXCEPT !.by = j]
                        /\ (ops[i].calls > 0 /\ ops[j].calls > 0
                              /\ ops[i].resp = ops[j].resp) => ops[i].res = ops[j].res

\* on an instance without a configured default, set(k, v, callback) and
\* set(k, v, 60, callback) have sent the same object, which expires 60
\* seconds after the call, and both have reported success
C30_Witness ==
    \E i, j \in SentSets :
        /\ config.defaultTtl = 60
        /\ ops[i].ttl = JFunc /\ ops[j].ttl = JNum(60) /\ SameCall(i, j)
        /\ ops[i].put.ttl = NumToString(ops[i].at + 60000)
        /\ ops[j].put = [ops[i].put EXCEPT !.by = j]
        /\ ops[i].calls = 1 /\ ops[j].calls = 1
        /\ ops[i].res = Res("null", 0, JNum(1)) /\ ops[j].res = ops[i].res

----------------------------------------------------------------------------
\* The race specification: the bucket holds the entry of key "a" with the
\* value 1 (without expiry, or expiring at 1000); set is called once for
\* that key, and get is called for it while the set is in flight

RaceKey == JStr(<<"a">>)
RaceOld == JNum(1)
RaceValues == {JStr(<<"1">>), JNum(2)}

InitRace ==
    /\ now = 0
    /\ config = validateAndProcessOptions(DefaultOptions)
    /\ ops = <<>>
    /\ store \in {StoreWith(1), ScanStoreWith(1)}

\* the sets that have been called and have not called back
InFlightSets == {s \in Sets : ops[s].calls = 0}

NextRace ==
    \/ \E v \in RaceValues, t \in Ttls : Sets = {} /\ SetCall(MaxRaceCalls, RaceKey, v, t)
    \/ InFlightSets # {} /\ GetCall(MaxRaceCalls, RaceKey)
    \/ \E i \in Ids : Progress(i)
    \/ Tick

SpecRace == InitRace /\ [][NextRace]_vars

----------------------------------------------------------------------------
\* Claims checked under SpecRace

\* C28: a get(k) called while set(k, vNew) is in flight over an entry that
\* holds vOld reports no error and either vOld or vNew - never a miss, an
\* error or another value - when the store fails neither its request nor
\* its body stream and no get has found the entry expired at its TTL
\* check (a get that does reports a miss and deletes the object).
C28_Race ==
    \A g \in Gets : \A s \in Sets :
        (/\ ops[g].calls > 0 /\ ops[g].cb = UserCb
         /\ ops[g].resp.err \notin Failures /\ ops[g].res.err # "S3OperationError"
         /\ \A h \in Gets : ~ops[h].sawExpired)
        => \/ ops[g].res = Res("null", 0, RaceOld)
           \/ ops[g].res = Res("null", 0, ops[s].val)

\* while one set was in flight, a get has reported the old value and
\* another the new one
C28_Witness ==
    \E g, h \in Gets : \E s \in InFlightSets :
        /\ s < g /\ s < h /\ ops[s].val = JStr(<<"1">>) /\ ops[s].pc = "resp"
        /\ ops[g].calls = 1 /\ ops[g].res = Res("null", 0, RaceOld)
        /\ ops[h].calls = 1 /\ ops[h].res = Res("null", 0, ops[s].val)

----------------------------------------------------------------------------
\* The corrupt-body specification: the bucket holds one object under the
\* key of "a" whose body was not written by set, without expiry or
\* expiring at 1000; get is called for it while time passes

\* texts JSON.parse throws on: the empty text, an open brace, an open
\* string, a number with a leading zero
CorruptBodies == {<<>>, <<"{">>, <<"\"", "a">>, <<"0", "1">>}

CorruptKey == JStr(<<"a">>)

InitCorrupt ==
    /\ now = 0
    /\ config = validateAndProcessOptions(DefaultOptions)
    /\ ops = <<>>
    /\ \E body \in CorruptBodies \cup {<<"1">>}, ttl \in {<<>>, <<"1", "0", "0", "0">>} :
          store = StorePut(<<>>, formatKey(CorruptKey.s), Obj(body, ttl, <<"0">>, 0))

NextCorrupt ==
    \/ GetCall(MaxCorruptCalls, CorruptKey)
    \/ \E i \in Ids : \/ StoreGetObject(i)
                      \/ GetThen(i)
                      \/ GetStream(i)
                      \/ GetCatch(i)
                      \/ StoreDeleteObject(i)
                      \/ DelReply(i)
    \/ Tick

SpecCorrupt == InitCorrupt /\ [][NextCorrupt]_vars

----------------------------------------------------------------------------
\* Claims checked under SpecCorrupt

\* no get has found the entry expired (none has started a lazy cleanup)
NoneExpired == \A h \in Gets : ~ops[h].sawExpired

\* C31: a get that receives an object whose body JSON.parse rejects, finds
\* it not expired and reads its body stream to the end reports a
\* SerializationError - no miss, no value - and the object is still stored
\* as it was (as long as no get has found it expired).
C31_Corrupt ==
    \A g \in Gets :
        (/\ ops[g].calls > 0 /\ ops[g].resp.ok /\ ~ops[g].sawExpired
         /\ ~Parse(ops[g].resp.obj.body).ok
         /\ ops[g].res.err # "S3OperationError")
        => /\ ops[g].calls = 1
           /\ ops[g].res = ErrRes("SerializationError", 0)
           /\ NoneExpired => /\ ops[g].skey \in DOMAIN store
                             /\ store[ops[g].skey] = ops[g].resp.obj

\* two gets have reported the SerializationError for the same stored body
C31_Witness ==
    \E g, h \in Gets :
        /\ g < h /\ NoneExpired
        /\ ops[g].resp.ok /\ ops[g].resp.obj.body = <<"\"", "a">>
        /\ ops[g].calls = 1 /\ ops[g].res = ErrRes("SerializationError", 0)
        /\ ops[h].calls = 1 /\ ops[h].res = ErrRes("SerializationError", 0)
        /\ ops[h].at > ops[g].evalAt

----------------------------------------------------------------------------
\* The listing specification: clear is called on a bucket of up to
\* MaxEntries entries whose listing may mark a page truncated without
\* supplying its token

InitPages ==
    /\ now = 0
    /\ config = validateAndProcessOptions(DefaultOptions)
    /\ ops = <<>>
    /\ \E n \in 0..MaxEntries : store = StoreWith(n)

NextPages ==
    \/ ClearCall(1)
    \/ \E i \in Ids : StoreListObjects(i)
    \/ \E i \in Ids : Len(ops[i].objects) < MaxCollected /\ StoreListNoToken(i)
    \/ \E i \in Ids : ClearListReply(i)
    \/ \E i \in Ids : \E b \in DOMAIN ops[i].batches : StoreDeleteObjects(i, b)
    \/ \E i \in Ids : \E b \in DOMAIN ops[i].batches : ClearBatchReply(i, b)

SpecPages == InitPages /\ [][NextPages]_vars

----------------------------------------------------------------------------
\* Claims checked under SpecPages

\* C32: clear's enumeration follows the continuation token: a listing
\* request after the first carries the token of the page before it, and
\* every key is collected once - also when a page is marked truncated and
\* carries no token.
C32_Pagination ==
    \A c \in Clears :
        /\ (ops[c].pc = "req" /\ ops[c].page # NoPage) => ops[c].token = ops[c].page.token
        /\ \A j, k \in DOMAIN ops[c].objects :
               j # k => ops[c].objects[j] # ops[c].objects[k]

----------------------------------------------------------------------------
\* Claims checked under Spec: the lazy cleanup and the reads' effect on the
\* bucket

\* the lazy cleanup d has its DeleteObject executed in this step
LazyDeleteStep(d) ==
    /\ ops[d].kind = "del" /\ ops[d].cb.t = "lazy"
    /\ ops[d].pc = "req" /\ ops'[d].pc = "resp" /\ ops'[d].resp.ok

\* C35: the DeleteObject that get issues after it found an entry expired
\* removes that entry or nothing: never an entry that a set wrote to the key
\* after get's read and that has not expired.
C35_LazyDelete ==
    [][\A d \in Ids :
          (LazyDeleteStep(d) /\ ops[d].skey \in DOMAIN store)
          => \/ store[ops[d].skey] = ops[ops[d].cb.parent].resp.obj
             \/ isExpired(store[ops[d].skey].ttl)]_vars

\* C39: get never writes an object and deletes only entries whose expiry
\* had passed when it read them: an object that leaves the bucket is one
\* that a get received and found expired, and an object that enters it is
\* the one of a set's PutObject executed in that step.
C39_ReadOnly ==
    [][/\ \A k \in DOMAIN store :
              k \notin DOMAIN store'
              => \E g \in Gets : ops[g].sawExpired /\ ops[g].resp.obj = store[k]
       /\ \A k \in DOMAIN store' :
              (k \notin DOMAIN store \/ store'[k] # store[k])
              => \E w \in Sets : /\ ops[w].pc = "req" /\ ops'[w].pc = "resp"
                                 /\ store'[k] = ops[w].put]_vars

----------------------------------------------------------------------------
\* The key specification: a caller that makes each call of set, get and del
\* from the callback of the one before, with keys that differ only in a
\* character the sanitizer removes, or in the placeholder text standing
\* where the other has a slash

IsoKeys ==
    {<<"a">>, <<"a", ":">>, <<"a", "/", "b">>,
     <<"a">> \o SLASH_PLACEHOLDER \o <<"b">>}

InitKeys ==
    /\ now = 0
    /\ config = validateAndProcessOptions(DefaultOptions)
    /\ ops = <<>>
    /\ store = StoreWith(0)

NextKeys ==
    \/ \E k \in IsoKeys, v \in WriteValues :
          Idle /\ SetCall(MaxKeyCalls, JStr(k), v, JNum(-1))
    \/ \E k \in IsoKeys : Idle /\ GetCall(MaxKeyCalls, JStr(k))
    \/ \E k \in IsoKeys : Idle /\ DelCall(MaxKeyCalls, JStr(k))
    \/ \E i \in Ids : Progress(i)

SpecKeys == InitKeys /\ [][NextKeys]_vars

----------------------------------------------------------------------------
\* Claims checked under SpecKeys

\* C36: calls with distinct valid keys use distinct storage keys, and what
\* a get receives was written by a set of the same key.
C36_KeyIsolation ==
    /\ \A i, j \in KeyOps :
           (ops[i].skey # <<>> /\ ops[j].skey # <<>> /\ ops[i].key # ops[j].key)
           => ops[i].skey # ops[j].skey
    /\ \A g \in Gets :
           (ops[g].resp.ok /\ Writer(g) # 0) => ops[Writer(g)].key = ops[g].key

----------------------------------------------------------------------------
\* The specification of raising callbacks: set, get, del and healthCheck are
\* called on key "a" (entries never expire) with callbacks that may raise
\* an exception when invoked with a success

NextThrow ==
    \/ \E v \in WriteValues : SetCall(MaxThrowCalls, JStr(<<"a">>), v, JNum(-1))
    \/ GetCall(MaxThrowCalls, JStr(<<"a">>))
    \/ DelCall(MaxThrowCalls, JStr(<<"a">>))
    \/ HealthCall(MaxThrowCalls)
    \/ \E i \in Ids : LiveProgress(i)
    \/ \E i \in Ids : ThenThrows(i)
    \/ \E i \in Ids : CatchThrown(i)
    \/ \E i \in Ids : GetStreamThrows(i)

SpecThrow == InitSeq /\ [][NextThrow]_vars

----------------------------------------------------------------------------
\* Claims checked under SpecThrow

\* C37: a callback that raises an exception when it is invoked with a
\* successful result is not invoked a second time by that operation.
C37_ThrowingCallback ==
    \A i \in Ids :
        (ops[i].cb = UserCb /\ ops[i].kind \in {"set", "del", "get", "health"})
        => ops[i].calls <= 1

----------------------------------------------------------------------------
\* The specification of all operations: get, set and del are called with
\* valid and invalid arguments, and clear, scan and healthCheck are called,
\* on a bucket that holds an object outside the prefix and possibly the
\* entry of key "a"

NextApi ==
    \/ \E k \in ArgKeys : GetCall(MaxApiCalls, k)
    \/ \E k \in ArgKeys, v \in ArgValues, t \in ArgTtls : SetCall(MaxApiCalls, k, v, t)
    \/ \E k \in ArgKeys : DelCall(MaxApiCalls, k)
    \/ ClearCall(MaxApiCalls)
    \/ \E p \in ScanPatterns, l \in ScanLimits : ScanCall(MaxApiCalls, p, l)
    \/ HealthCall(MaxApiCalls)
    \/ \E i \in Ids : LiveProgress(i)
    \/ \E i \in Ids : StoreListObjects(i)
    \/ \E i \in Ids : ClearListReply(i)
    \/ \E i \in Ids : \E b \in DOMAIN ops[i].batches : StoreDeleteObjects(i, b)
    \/ \E i \in Ids : \E b \in DOMAIN ops[i].batches : ClearBatchReply(i, b)
    \/ \E i \in Ids : ScanThen(i)
    \/ \E i \in Ids : ScanCatch(i)

SpecApi == InitSeq /\ [][NextApi]_vars

----------------------------------------------------------------------------
\* Claims checked under SpecApi

\* the operations whose call is made in this step
Called == {i \in DOMAIN ops' : i \notin DOMAIN ops /\ ops'[i].cb = UserCb}

\* C38: when the call of a public operation returns, its callback has not
\* been invoked, whatever the arguments: the call has sent its request, or
\* has handed the validation error to process.nextTick, and the callback
\* is invoked in a later step.
C38_Asynchronous ==
    [][\A i \in Called : /\ ops'[i].calls = 0
                         /\ ops'[i].pc \in {"req", "tick"}
                         /\ ops'[i].pc = "tick" => ops'[i].pend.err # "null"]_vars

\* a set with an invalid TTL has returned and its TTLError is still to be
\* delivered, while a get with an invalid key has been called back with
\* its ConfigurationError
C38_Witness ==
    \E i, j \in Ids :
        /\ ops[i].kind = "get" /\ ops[i].key = JNum(5) /\ ops[i].pc = "done"
        /\ ops[i].calls = 1 /\ ops[i].res = ErrRes("ConfigurationError", 0)
        /\ ops[j].kind = "set" /\ ops[j].ttl = JNum(0) /\ ops[j].pc = "tick"
        /\ ops[j].calls = 0 /\ ops[j].pend = ErrRes("TTLError", 0)

====
